---------------------------- MODULE Spec2Model ----------------------------
(***************************************************************************)
(* TraderAI: the basal reservoir engine (basal_reservoir_engine.py) and    *)
(* the GCT/basal integrator (gct_basal_integration.py).                    *)
(*                                                                         *)
(* Reals are fixed-point integers.  A "milli" value is the real times      *)
(* Scale (1.0 = 1000); the product of two milli values is a "micro" value  *)
(* (1.0 = 1000000), so the code's 1e-6 thresholds are exactly 1 micro.     *)
(* Divisions round to nearest.  tanh and exp are piecewise-linear tables.  *)
(***************************************************************************)
EXTENDS Integers, Sequences, FiniteSets, TLC

\* ------------------------------------------------------------------------
\* Fixed-point arithmetic
\* ------------------------------------------------------------------------

Scale == 10 * 100

Micro == Scale * Scale

Abs(x) == IF x < 0 THEN -x ELSE x

Min(a, b) == IF a < b THEN a ELSE b

Max(a, b) == IF a > b THEN a ELSE b

\* a / b rounded to the nearest integer (b > 0 or b < 0, b # 0)
RDiv(a, b) ==
    LET n == IF b < 0 THEN -a ELSE a
        d == Abs(b)
    IN IF n >= 0 THEN (2 * n + d) \div (2 * d)
                 ELSE -((2 * (-n) + d) \div (2 * d))

\* np.clip(x, lo, hi)
Clip(x, lo, hi) == IF x < lo THEN lo ELSE IF x > hi THEN hi ELSE x

RECURSIVE SumF(_, _)
\* sum(f[k] for k in S)
SumF(f, S) ==
    IF S = {} THEN 0
    ELSE LET k == CHOOSE k \in S : TRUE
         IN f[k] + SumF(f, S \ {k})

RECURSIVE SumSeq(_)
SumSeq(s) == IF s = <<>> THEN 0 ELSE Head(s) + SumSeq(Tail(s))

\* s[-n:]
LastN(s, n) ==
    IF Len(s) <= n THEN s ELSE SubSeq(s, Len(s) - n + 1, Len(s))

\* s[-k], k >= 1
FromEnd(s, k) == s[Len(s) - k + 1]

\* np.mean of a non-empty sequence (same unit as the elements)
Mean(s) == RDiv(SumSeq(s), Len(s))

\* np.var of a non-empty sequence of milli values, in micro
Var(s) ==
    LET m == Mean(s)
    IN RDiv(SumSeq([i \in 1..Len(s) |-> (s[i] - m) * (s[i] - m)]), Len(s))

RECURSIVE ISqrt(_)
\* floor(sqrt(n)), n >= 0, by halving: sqrt(n) = 2*sqrt(n/4) or that plus one
ISqrt(n) ==
    IF n < 2 THEN n
    ELSE LET r == 2 * ISqrt(n \div 4)
         IN IF (r + 1) * (r + 1) <= n THEN r + 1 ELSE r

\* np.std of a sequence of milli values, in milli
Std(s) == ISqrt(Var(s))

\* linear interpolation in a table sampled every Scale/4 (x >= 0, milli)
Interp(tab, x) ==
    LET step == Scale \div 4
        i == x \div step
    IN IF i + 1 >= Len(tab) THEN tab[Len(tab)]
       ELSE tab[i + 1] + RDiv((tab[i + 2] - tab[i + 1]) * (x % step), step)

TanhTab ==
    << 0, 245, 462, 635, 762, 848, 905, 941, 964, 978, 987, 992, 995, 997,
       998, 999, 999, 1000 >>

\* np.tanh(x): milli -> milli, odd, saturating at +-1
Tanh(x) == IF x >= 0 THEN Interp(TanhTab, x) ELSE -Interp(TanhTab, -x)

ExpTab ==
    << 1000, 779, 607, 472, 368, 287, 223, 174, 135, 105, 82, 64, 50, 39,
       30, 24, 18, 14, 11, 9, 7, 5, 4, 3, 2, 2, 2, 1, 1, 1, 0 >>

\* np.exp(x): milli -> milli.  Every call site passes -c*v with v a
\* variance or a volatility; a positive argument (v < 0) gives a value > 1.
Exp(x) == IF x <= 0 THEN Interp(ExpTab, -x) ELSE Scale + x

\* ------------------------------------------------------------------------
\* BasalReservoirConfig defaults and the constants of the update rules
\* ------------------------------------------------------------------------

NumNodes == 3

NodeIds == 0..(NumNodes - 1)

learning_rate == 10

energy_decay == 950

connection_radius == 300

coherence_coupling == 50

adaptation_rate == 1

NodeHistoryCap == 100

WeightClip == 2000

LearnEps == 1

VarStable == 10000

VarUnstable == 100000

TargetFloor == 200

TargetCeil == 800

\* ------------------------------------------------------------------------
\* BasalReservoirNode
\* ------------------------------------------------------------------------

\* dict.get(k, 0) on a weight or signal map
Get0(d, k) == IF k \in DOMAIN d THEN d[k] ELSE 0

\* append to a history and never pop
PushUncapped(h, x, cap) == Append(h, x)

\* append to a history and pop the front once it is longer than the cap
PushCapped(h, x, cap) ==
    LET a == Append(h, x)
    IN IF Len(a) > cap THEN Tail(a) ELSE a

\* the energy stored as computed
UnclampedEnergy(e) == e

\* the clamp of update_energy, line 94
ClampEnergy(e) == Clip(e, 0, Scale)

\* lines 87-103 of update_energy: the energy, then the two histories
StoreActivation(node, activation) ==
    [node EXCEPT
       !.activation = activation,
       !.energy = ClampEnergy(RDiv(node.energy * energy_decay
                                   + 100 * activation
                                   - 50 * (node.energy - node.target_energy),
                                   Scale)),
       !.activation_history = PushCapped(@, activation, NodeHistoryCap)]

\* the energy history appended to and never popped
StoreEnergyUncapped(node) ==
    [node EXCEPT !.energy_history = Append(@, node.energy)]

StoreEnergyHistory(node) ==
    [node EXCEPT !.energy_history = PushCapped(@, node.energy, NodeHistoryCap)]

\* sum(incoming_weights.get(k, 0) * v for k, v in signals.items()), micro
WeightedSum(node, signals) ==
    SumF([k \in DOMAIN signals |-> Get0(node.incoming_weights, k) * signals[k]],
         DOMAIN signals)

\* the activation also driven by the node's own energy error
update_energy_from_energy_error(node, input_signals, neighbor_activations) ==
    StoreEnergyHistory(
      StoreActivation(
        node,
        Tanh(RDiv(WeightedSum(node, input_signals)
                  + RDiv(8 * WeightedSum(node, neighbor_activations), 10),
                  Scale)
             + node.energy - node.target_energy)))

\* BasalReservoirNode.update_energy: the node after the update
update_energy(node, input_signals, neighbor_activations) ==
    StoreEnergyHistory(
      StoreActivation(
        node,
        Tanh(RDiv(WeightedSum(node, input_signals)
                  + RDiv(8 * WeightedSum(node, neighbor_activations), 10),
                  Scale))))

\* the clamp of homeodynamic_learning, line 135
ClampWeight(w) == Clip(w, -WeightClip, WeightClip)

\* learning_rate * energy_error * neighbor_activation * current_weight
\* / total_weighted_input, in milli; g = learning_rate * energy_error and
\* aw = neighbor_activation * current_weight are micro values, and aw is
\* split in two so that no product leaves 32 bits
WeightDelta(g, aw, total) ==
    LET s  == IF aw < 0 THEN -1 ELSE 1
        hi == Abs(aw) \div Scale
        lo == Abs(aw) % Scale
    IN s * (RDiv(hi * g, total) + RDiv(RDiv(lo * g, Scale), total))

\* learning that mirrors every weight it rewrites onto the outgoing
\* connection to the same neighbour
UpdateBothWeights(node, neighbor_states, total_weighted_input) ==
    [node EXCEPT
       !.incoming_weights =
           [n \in DOMAIN node.incoming_weights |->
              IF n \in DOMAIN neighbor_states
              THEN ClampWeight(
                     node.incoming_weights[n]
                     - WeightDelta(learning_rate * (node.energy - node.target_energy),
                                   neighbor_states[n] * node.incoming_weights[n],
                                   total_weighted_input))
              ELSE node.incoming_weights[n]],
       !.outgoing_weights =
           [n \in DOMAIN node.outgoing_weights \cup DOMAIN neighbor_states |->
              IF n \in DOMAIN neighbor_states
              THEN ClampWeight(
                     Get0(node.incoming_weights, n)
                     - WeightDelta(learning_rate * (node.energy - node.target_energy),
                                   neighbor_states[n] * Get0(node.incoming_weights, n),
                                   total_weighted_input))
              ELSE node.outgoing_weights[n]]]

\* lines 126-135 of homeodynamic_learning: every weight whose source is in
\* neighbor_states is rewritten
UpdateWeights(node, neighbor_states, total_weighted_input) ==
    [node EXCEPT !.incoming_weights =
        [n \in DOMAIN node.incoming_weights |->
           IF n \in DOMAIN neighbor_states
           THEN ClampWeight(
                  node.incoming_weights[n]
                  - WeightDelta(learning_rate * (node.energy - node.target_energy),
                                neighbor_states[n] * node.incoming_weights[n],
                                total_weighted_input))
           ELSE node.incoming_weights[n]]]

\* lines 122-123: the guard on the normalization factor
LearnIfInput(node, neighbor_states, total_weighted_input) ==
    IF Abs(total_weighted_input) < LearnEps THEN node
    ELSE UpdateWeights(node, neighbor_states, total_weighted_input)

\* BasalReservoirNode.homeodynamic_learning: the node after learning
homeodynamic_learning(node, neighbor_states) ==
    IF DOMAIN neighbor_states = {} THEN node
    ELSE LearnIfInput(node, neighbor_states,
                      SumF([n \in DOMAIN neighbor_states |->
                               neighbor_states[n] * Get0(node.incoming_weights, n)],
                           DOMAIN neighbor_states))

\* the adaptation without its floor and its ceiling
AdaptWithoutLimits(node, energy_variance) ==
    IF energy_variance < VarStable
    THEN [node EXCEPT !.target_energy = @ - adaptation_rate]
    ELSE IF energy_variance > VarUnstable
    THEN [node EXCEPT !.target_energy = @ + adaptation_rate]
    ELSE node

\* lines 144-147 of adapt_target_energy
AdaptTo(node, energy_variance) ==
    IF energy_variance < VarStable
    THEN [node EXCEPT !.target_energy = Max(TargetFloor, @ - adaptation_rate)]
    ELSE IF energy_variance > VarUnstable
    THEN [node EXCEPT !.target_energy = Min(TargetCeil, @ + adaptation_rate)]
    ELSE node

\* BasalReservoirNode.adapt_target_energy: the node after adaptation
adapt_target_energy(node) ==
    IF Len(node.energy_history) >= 10
    THEN AdaptTo(node, Var(LastN(node.energy_history, 10)))
    ELSE node

\* ------------------------------------------------------------------------
\* BasalReservoirEngine: construction
\* ------------------------------------------------------------------------

\* s[idx] of a draw table, cyclically (idx >= 0)
Cyc(s, idx) == s[(idx % Len(s)) + 1]

\* What the global np.random generator returns during one construction, for
\* each seed the model considers: the uniform(0,1) coordinates of the node
\* positions, the uniform(0.3,0.7) energies, the uniform(0.4,0.6) target
\* energies and the normal(0,0.2) weight draws.
\*   1: nodes on a line, 0.2 apart: a chain
\*   2: nodes in a cluster: every pair connected
\*   3: nodes in the corners: no connection at all
\*   4: nodes 0 and 1 almost coincide and one weight draw lies in the far
\*      tail of the normal distribution (11.5 standard deviations: the polar
\*      method behind np.random.normal returns up to 12)
RandomStreams ==
    << [uniform01 |-> << 100, 100, 300, 100, 500, 100, 700, 100 >>,
        energy    |-> << 300, 520, 699, 450 >>,
        target    |-> << 400, 550, 599, 480 >>,
        normal    |-> << 150, -220, 80, -40, 310, -120, 200 >>],
       [uniform01 |-> << 500, 500, 520, 500, 500, 550, 450, 480 >>,
        energy    |-> << 650, 310, 500, 699 >>,
        target    |-> << 599, 400, 450, 520 >>,
        normal    |-> << -400, 250, 90, -310, 180, 60, -150 >>],
       [uniform01 |-> << 0, 0, 900, 0, 0, 900, 900, 900 >>,
        energy    |-> << 500, 400, 600, 350 >>,
        target    |-> << 500, 450, 550, 410 >>,
        normal    |-> << 120, -60, 30, 210, -90, 10, -170 >>],
       [uniform01 |-> << 500, 500, 510, 500, 800, 100, 100, 800 >>,
        energy    |-> << 400, 600, 500, 330 >>,
        target    |-> << 450, 550, 500, 590 >>,
        normal    |-> << 100, -50, 2308, 120, -180, 90, -30 >>] >>

Seeds == 1..Len(RandomStreams)

\* BasalReservoirNode.__init__ for node i, before the weights are populated
NewNode(rs, i) ==
    [energy             |-> Cyc(rs.energy, i),
     target_energy      |-> Cyc(rs.target, i),
     activation         |-> 0,
     incoming_weights   |-> <<>>,
     outgoing_weights   |-> <<>>,
     activation_history |-> <<>>,
     energy_history     |-> <<>>]

\* np.random.uniform(0, 1, (num_nodes, 2)): the position of node i
Position(rs, i) == << Cyc(rs.uniform01, 2 * i), Cyc(rs.uniform01, 2 * i + 1) >>

\* np.linalg.norm(p - q), milli
Distance(p, q) ==
    ISqrt((p[1] - q[1]) * (p[1] - q[1]) + (p[2] - q[2]) * (p[2] - q[2]))

\* BasalReservoirEngine._build_spatial_connectivity
build_spatial_connectivity(rs) ==
    [i \in NodeIds |-> [j \in NodeIds |->
        IF i # j /\ Distance(Position(rs, i), Position(rs, j)) < connection_radius
        THEN Exp(-RDiv(Distance(Position(rs, i), Position(rs, j)) * Scale,
                       connection_radius \div 2))
        ELSE 0]]

\* np.random.normal(0, 0.2) * connection_strength for the connection of
\* node i with node j; dir is 0 for the incoming and 1 for the outgoing one
InitialWeight(rs, adjacency, i, j, dir) ==
    RDiv(Cyc(rs.normal, 4 * i + 2 * j + dir)
         * (IF dir = 0 THEN adjacency[j][i] ELSE adjacency[i][j]), Scale)

\* BasalReservoirEngine._initialize_connection_weights
initialize_connection_weights(rs, adjacency, nodes) ==
    [i \in NodeIds |->
        [nodes[i] EXCEPT
           !.incoming_weights =
               [j \in {k \in NodeIds : adjacency[k][i] > 0} |->
                   InitialWeight(rs, adjacency, i, j, 0)],
           !.outgoing_weights =
               [j \in {k \in NodeIds : adjacency[i][k] > 0} |->
                   InitialWeight(rs, adjacency, i, j, 1)]]]

\* BasalReservoirEngine.__init__ and _initialize_reservoir.  psi is kept in
\* micro; rho, q and f of coherence_state stay 0.5 for ever.
NewEngine(seed) ==
    LET rs == RandomStreams[seed]
        adjacency == build_spatial_connectivity(rs)
    IN [nodes |-> initialize_connection_weights(
                      rs, adjacency, [i \in NodeIds |-> NewNode(rs, i)]),
        adjacency_matrix     |-> adjacency,
        psi                  |-> Micro \div 2,
        coherence_history    |-> <<>>,
        anticipation_history |-> <<>>]

\* ------------------------------------------------------------------------
\* BasalReservoirEngine: one step
\* ------------------------------------------------------------------------

\* the activations read from the nodes as the loop has updated them so far
live_activations(snapshot, nodes) == nodes

\* The activations a node reads during a step: the dictionary built before
\* the loop (line 232), not the nodes as the loop has updated them so far.
current_activations(snapshot, nodes) == snapshot

\* neighbor_states of lines 238-239
neighbor_states_of(node_id, node, activations) ==
    [nid \in {n \in DOMAIN activations :
                 n # node_id /\ n \in DOMAIN node.incoming_weights} |->
        activations[nid]]

\* the node learning before its update instead of after it
StepNodeLearnFirst(node, external_inputs, neighbor_states) ==
    adapt_target_energy(
      update_energy(
        homeodynamic_learning(node, neighbor_states),
        external_inputs, neighbor_states))

\* lines 242-249: update, then learn, then adapt, on the same neighbor_states
StepNodeWith(node, external_inputs, neighbor_states) ==
    adapt_target_energy(
      homeodynamic_learning(
        update_energy(node, external_inputs, neighbor_states),
        neighbor_states))

\* the body of the loop of update_reservoir_state for one node
StepNode(node_id, node, external_inputs, activations) ==
    StepNodeWith(node, external_inputs,
                 neighbor_states_of(node_id, node, activations))

RECURSIVE StepNodes(_, _, _, _)
\* the loop of update_reservoir_state over the nodes in the given order
StepNodes(nodes, order, external_inputs, snapshot) ==
    IF order = <<>> THEN nodes
    ELSE StepNodes(
           [nodes EXCEPT ![Head(order)] =
               StepNode(Head(order), nodes[Head(order)], external_inputs,
                        current_activations(
                            snapshot, [n \in NodeIds |-> nodes[n].activation]))],
           Tail(order), external_inputs, snapshot)

\* self.nodes is a list: the loop visits the nodes by increasing id
ListOrder == [k \in 1..NumNodes |-> k - 1]

\* BasalReservoirEngine.update_reservoir_state: the engine after the step;
\* the returned array is Activations of the result
update_reservoir_state(engine, external_inputs) ==
    [engine EXCEPT !.nodes =
        StepNodes(engine.nodes, ListOrder, external_inputs,
                  [n \in NodeIds |-> engine.nodes[n].activation])]

\* np.array(new_activations)
Activations(engine) == [k \in 1..NumNodes |-> engine.nodes[k - 1].activation]

Energies(engine) == [k \in 1..NumNodes |-> engine.nodes[k - 1].energy]

\* ------------------------------------------------------------------------
\* BasalReservoirEngine: coherence, anticipation, prediction
\* ------------------------------------------------------------------------

gamma == 100

delta == 150

epsilon == 50

FrequencyMinHistory == 5

FrequencyWindow == 20

\* phi * sum(node.energy - node.target_energy), in micro
BasalContribution(engine) ==
    coherence_coupling
    * SumF([n \in NodeIds |-> engine.nodes[n].energy - engine.nodes[n].target_energy],
           NodeIds)

\* BasalReservoirEngine._compute_symbolic_acceptance, milli
compute_symbolic_acceptance(engine) ==
    Exp(-RDiv(2 * Var(Activations(engine)), Scale))

\* sin(pi * p / q), milli, by Bhaskara's rational approximation
\* (error below 0.002); p >= 0, q > 0
SinPi(p, q) ==
    LET r == p % (2 * q)
        h == IF r <= q THEN r ELSE r - q
        v == RDiv(Scale * 16 * h * (q - h), 5 * q * q - 4 * h * (q - h))
    IN IF r <= q THEN v ELSE -v

SumSquares(a, b) == a * a + b * b

\* |np.fft.fft(x)[k]|^2 up to a constant factor, for 1 <= k < len(x): the
\* bin does not change when a constant is subtracted from x, nor the argmax
\* when x is scaled, so x enters as v, its deviation from x[0] scaled to
\* magnitude <= Scale
FftPower(v, k) ==
    SumSquares(
      RDiv(SumSeq([n \in 1..Len(v) |->
                      v[n] * SinPi(Len(v) + 4 * k * (n - 1), 2 * Len(v))]), Scale),
      RDiv(SumSeq([n \in 1..Len(v) |->
                      v[n] * SinPi(4 * k * (n - 1), 2 * Len(v))]), Scale))

RECURSIVE MaxAbsSeq(_)
MaxAbsSeq(s) == IF s = <<>> THEN 0 ELSE Max(Abs(Head(s)), MaxAbsSeq(Tail(s)))

Deviations(recent) == [n \in 1..Len(recent) |-> recent[n] - recent[1]]

Normalized(dev, m) ==
    [n \in 1..Len(dev) |-> IF m = 0 THEN 0 ELSE RDiv(dev[n] * Scale, m)]

ScaledDeviations(dev) == Normalized(dev, MaxAbsSeq(dev))

\* fft_power[1:len // 2] of line 306, indexed from 1
PowerSpectrum(v) == [k \in 1..((Len(v) \div 2) - 1) |-> FftPower(v, k)]

\* np.argmax(...) + 1: the first bin of greatest power
ArgMaxFirst(fft_power) ==
    CHOOSE k \in DOMAIN fft_power :
       /\ \A j \in DOMAIN fft_power : fft_power[j] <= fft_power[k]
       /\ \A j \in DOMAIN fft_power : j < k => fft_power[j] < fft_power[k]

DominantFrequency(recent) ==
    ArgMaxFirst(PowerSpectrum(ScaledDeviations(Deviations(recent))))

\* lines 305-310: min(1.0, dominant_freq / len(recent) * 5), milli
FrequencyOf(recent) ==
    Min(Scale, RDiv(5 * Scale * DominantFrequency(recent), Len(recent)))

\* BasalReservoirEngine._compute_symbolic_frequency, milli
compute_symbolic_frequency(engine) ==
    IF Len(engine.coherence_history) < FrequencyMinHistory
    THEN Scale \div 2
    ELSE FrequencyOf(LastN(engine.coherence_history, FrequencyWindow))

\* BasalReservoirEngine._compute_mental_activity, milli
compute_mental_activity(engine) ==
    LET with2 == {n \in NodeIds : Len(engine.nodes[n].energy_history) >= 2}
    IN IF with2 = {} THEN 0
       ELSE RDiv(SumF([n \in with2 |->
                          Abs(FromEnd(engine.nodes[n].energy_history, 1)
                              - FromEnd(engine.nodes[n].energy_history, 2))],
                      with2),
                 Cardinality(with2))

\* the clamp of compute_enhanced_coherence, line 275 (micro)
ClampPsi(p) == Clip(p, 0, Micro)

\* lines 275-276: the clamped value is stored and appended to the history
StorePsi(engine, new_psi) ==
    [engine EXCEPT !.psi = new_psi,
                   !.coherence_history = Append(@, new_psi)]

\* BasalReservoirEngine.compute_enhanced_coherence: the engine after the
\* call; the returned value is psi of the result
compute_enhanced_coherence(engine) ==
    StorePsi(engine,
             ClampPsi(engine.psi
                      + RDiv(- gamma * compute_symbolic_acceptance(engine)
                             + delta * compute_symbolic_frequency(engine)
                             - epsilon * compute_mental_activity(engine)
                             + BasalContribution(engine), 100)))

\* the value compute_anticipation_capacity returns, milli
AnticipationOf(engine) == RDiv(BasalContribution(engine), Scale)

\* BasalReservoirEngine.compute_anticipation_capacity: the engine after
compute_anticipation_capacity(engine) ==
    [engine EXCEPT !.anticipation_history = Append(@, AnticipationOf(engine))]

\* BasalReservoirEngine.get_reservoir_state
get_reservoir_state(engine) ==
    [num_nodes |-> NumNodes,
     average_energy |-> Mean(Energies(engine)),
     energy_variance |-> Var(Energies(engine)),
     average_activation |-> Mean(Activations(engine)),
     enhanced_coherence |-> engine.psi,
     anticipation_capacity |->
         IF engine.anticipation_history = <<>> THEN 0
         ELSE FromEnd(engine.anticipation_history, 1),
     connection_density |->
         RDiv(Scale * SumF([n \in NodeIds |->
                              Cardinality(DOMAIN engine.nodes[n].incoming_weights)],
                           NodeIds), NumNodes)]

\* (x - mean) / (std + 1e-8) for every element of a non-empty sequence
ZScores(x) ==
    LET m == Mean(x)
        sd == Std(x)
    IN [i \in 1..Len(x) |-> IF sd = 0 THEN 0 ELSE RDiv((x[i] - m) * Scale, sd)]

\* lines 369-375 of _encode_market_data: the evenly spaced input nodes
DistributeInputs(normalized_data, num_input_nodes) ==
    [node_id \in {i * (NumNodes \div num_input_nodes) :
                     i \in 0..(num_input_nodes - 1)} |->
        normalized_data[(node_id \div (NumNodes \div num_input_nodes)) + 1]]

\* BasalReservoirEngine._encode_market_data
encode_market_data(market_data) ==
    IF Len(market_data) = 0 THEN <<>>
    ELSE DistributeInputs(ZScores(market_data),
                          Min(NumNodes \div 4, Len(market_data)))

\* BasalReservoirEngine._decode_prediction, milli
decode_prediction(activations, coherence, anticipation) ==
    LET wsum == SumSeq([i \in 1..Len(activations) |-> Abs(activations[i]) + 100])
        weighted_activation ==
            RDiv(SumSeq([i \in 1..Len(activations) |->
                            activations[i] * (Abs(activations[i]) + 100)]), wsum)
    IN RDiv(6 * weighted_activation + 3 * coherence + anticipation, 10)

\* the three calls of one prediction step, lines 344-350; the last two
\* leave the nodes alone
AdvanceReservoir(engine, external_inputs) ==
    compute_anticipation_capacity(
      compute_enhanced_coherence(
        update_reservoir_state(engine, external_inputs)))

\* the values the last AdvanceReservoir returned to its caller
LastCoherence(engine) == RDiv(engine.psi, Scale)

LastAnticipation(engine) == FromEnd(engine.anticipation_history, 1)

RECURSIVE PredictSteps(_, _, _, _, _)
RECURSIVE PredictStep(_, _, _, _, _)
\* the loop of predict_market_pattern: [engine, predictions] after it
PredictSteps(engine, market_inputs, step, steps_ahead, predictions) ==
    IF step >= steps_ahead THEN [engine |-> engine, predictions |-> predictions]
    ELSE PredictStep(
           AdvanceReservoir(engine, IF step = 0 THEN market_inputs ELSE <<>>),
           market_inputs, step, steps_ahead, predictions)

\* lines 353-356: decode the advanced reservoir and go on
PredictStep(advanced, market_inputs, step, steps_ahead, predictions) ==
    PredictSteps(advanced, market_inputs, step + 1, steps_ahead,
                 Append(predictions,
                        decode_prediction(Activations(advanced),
                                          LastCoherence(advanced),
                                          LastAnticipation(advanced))))

PredictMinSamples == 10

\* the prediction loop entered whatever the length of the series
predict_without_length_guard(engine, market_data, steps_ahead) ==
    PredictSteps(engine, encode_market_data(LastN(market_data, 10)),
                 0, steps_ahead, <<>>)

\* BasalReservoirEngine.predict_market_pattern: [engine, predictions]
predict_market_pattern(engine, market_data, steps_ahead) ==
    IF Len(market_data) < PredictMinSamples
    THEN [engine |-> engine, predictions |-> [i \in 1..steps_ahead |-> 0]]
    ELSE PredictSteps(engine, encode_market_data(LastN(market_data, 10)),
                      0, steps_ahead, <<>>)

\* ------------------------------------------------------------------------
\* GCTBasalIntegrator
\* ------------------------------------------------------------------------

\* A MarketDataPoint is [symbol, price, volume, sentiment]: price in milli,
\* volume a count, sentiment <<>> for None and <<s>> for the float s (milli).

integration_strength == 300

MarketHistoryCap == 1000

ResultLogCap == 500

AccuracyTrackerCap == 100

StabilityTrackerCap == 50

TraditionalMinSamples == 5

TrendMinSamples == 10

Neutral == Scale \div 2

NeutralGCT == [psi |-> Neutral, rho |-> Neutral, q |-> Neutral, f |-> Neutral]

Prices(history) == [i \in 1..Len(history) |-> history[i].price]

Volumes(history) == [i \in 1..Len(history) |-> history[i].volume]

\* a / (b + 1e-8) for a >= 0 and b >= 0 that are multiples of 0.001, milli:
\* the 1e-8 only decides the case b = 0, where a is 0 at every call site
Ratio(a, b) == IF b = 0 THEN 0 ELSE RDiv(a * Scale, b)

\* min(1.0, 10 * abs(np.polyfit(range(n), y, 1)[0]) / (np.mean(y) + 1e-8)):
\* the least-squares slope over x = 0..n-1 is
\* sum((2x - (n-1)) * y[x]) / (n * (n*n - 1) / 6)
TrendRho(y) ==
    LET n == Len(y)
        num == SumSeq([i \in 1..n |-> (2 * (i - 1) - (n - 1)) * y[i]])
        slope1000 == RDiv(Abs(num) * Scale, (n * (n * n - 1)) \div 6)
    IN IF Mean(y) = 0 THEN 0 ELSE Min(Scale, RDiv(10 * slope1000, Mean(y)))

\* a coherence vector returned as computed
UnclampedGCT(g) == g

\* the final clamps of a coherence vector, lines 195-200 and 269-274
ClampGCT(g) ==
    [psi |-> Clip(g.psi, 0, Scale), rho |-> Clip(g.rho, 0, Scale),
     q |-> Clip(g.q, 0, Scale), f |-> Clip(g.f, 0, Scale)]

\* as if the volume ratio (line 179) divided by the bare mean volume
TraditionalRaisesOnZeroVolume(history, market_data) ==
    \/ /\ Len(history) >= TraditionalMinSamples
       /\ market_data.sentiment = <<>>
       /\ FromEnd(history, 3).price = 0
    \/ /\ Len(history) >= TraditionalMinSamples
       /\ SumSeq(LastN(Volumes(history), 5)) = 0

\* _compute_traditional_gct raises ZeroDivisionError (line 190): the
\* momentum divides by the price two points back
TraditionalRaises(history, market_data) ==
    /\ Len(history) >= TraditionalMinSamples
    /\ market_data.sentiment = <<>>
    /\ FromEnd(history, 3).price = 0

\* the traditional vector with psi = exp(-volatility), the factor 2 dropped
TraditionalFromSingleVolatility(recent_prices, recent_volumes, last10, market_data) ==
    [psi |-> Exp(-Ratio(Std(last10), Mean(last10))),
     rho |-> IF Len(recent_prices) >= TrendMinSamples
             THEN TrendRho(last10)
             ELSE Neutral,
     q   |-> Min(Scale,
                 Max(0, (Ratio(5 * FromEnd(recent_volumes, 1),
                               SumSeq(LastN(recent_volumes, 5))) - Neutral) * 2)),
     f   |-> IF market_data.sentiment # <<>>
             THEN RDiv(market_data.sentiment[1] + Scale, 2)
             ELSE RDiv(Tanh(RDiv((FromEnd(recent_prices, 1)
                                  - FromEnd(recent_prices, 3)) * Scale,
                                 FromEnd(recent_prices, 3)) * 10) + Scale, 2)]

\* lines 166-192 of _compute_traditional_gct, before the final clamps
TraditionalFrom(recent_prices, recent_volumes, last10, market_data) ==
    [psi |-> Exp(-2 * Ratio(Std(last10), Mean(last10))),
     rho |-> IF Len(recent_prices) >= TrendMinSamples
             THEN TrendRho(last10)
             ELSE Neutral,
     q   |-> Min(Scale,
                 Max(0, (Ratio(5 * FromEnd(recent_volumes, 1),
                               SumSeq(LastN(recent_volumes, 5))) - Neutral) * 2)),
     f   |-> IF market_data.sentiment # <<>>
             THEN RDiv(market_data.sentiment[1] + Scale, 2)
             ELSE RDiv(Tanh(RDiv((FromEnd(recent_prices, 1)
                                  - FromEnd(recent_prices, 3)) * Scale,
                                 FromEnd(recent_prices, 3)) * 10) + Scale, 2)]

\* the neutral vector returned only below 3 points
traditional_gct_neutral_below_three(history, market_data) ==
    IF Len(history) < 3 THEN NeutralGCT
    ELSE ClampGCT(TraditionalFrom(LastN(Prices(history), 20),
                                  LastN(Volumes(history), 20),
                                  LastN(Prices(history), 10),
                                  market_data))

\* GCTBasalIntegrator._compute_traditional_gct (history already holds the
\* data point)
compute_traditional_gct(history, market_data) ==
    IF Len(history) < TraditionalMinSamples THEN NeutralGCT
    ELSE ClampGCT(TraditionalFrom(LastN(Prices(history), 20),
                                  LastN(Volumes(history), 20),
                                  LastN(Prices(history), 10),
                                  market_data))

\* np.pad(x, (0, n - len(x)), 'constant')[:n]
PadTo(x, n) == [i \in 1..n |-> IF i <= Len(x) THEN x[i] ELSE 0]

\* a short history prepared as an array of five zeros
prepare_five_zeros_when_short(history) ==
    IF Len(history) < 5 THEN [i \in 1..5 |-> 0]
    ELSE LET recent_data == LastN(history, 20)
             prices_norm == ZScores(Prices(recent_data))
             volumes_norm == ZScores(Volumes(recent_data))
         IN PadTo(LastN(prices_norm, 10) \o LastN(volumes_norm, 10), 20)

\* GCTBasalIntegrator._prepare_market_data_for_reservoir
prepare_market_data_for_reservoir(history) ==
    IF Len(history) < 5 THEN [i \in 1..10 |-> 0]
    ELSE LET recent_data == LastN(history, 20)
             prices_norm == ZScores(Prices(recent_data))
             volumes_norm == ZScores(Volumes(recent_data))
         IN PadTo(LastN(prices_norm, 10) \o LastN(volumes_norm, 10), 20)

\* signals[k] = v
Put(d, k, v) == [x \in DOMAIN d \cup {k} |-> IF x = k THEN v ELSE d[x]]

\* _encode_market_signals raises ZeroDivisionError (line 229)
EncodeRaises(history) ==
    Len(history) >= 2 /\ FromEnd(history, 2).price = 0

\* GCTBasalIntegrator._encode_market_signals
encode_market_signals(history, market_data) ==
    LET s0 == <<>>
        s1 == IF Len(history) >= 2
              THEN Put(s0, 0,
                       Tanh(100 * RDiv((market_data.price - FromEnd(history, 2).price)
                                       * Scale, FromEnd(history, 2).price)))
              ELSE s0
        s2 == IF Len(history) >= 5
              THEN Put(s1, NumNodes \div 4,
                       Tanh(Ratio(5 * market_data.volume,
                                  SumSeq(LastN(Volumes(history), 5))) - Scale))
              ELSE s1
    IN IF market_data.sentiment # <<>>
       THEN Put(s2, NumNodes \div 2, market_data.sentiment[1])
       ELSE s2

\* the blend with the two weights exchanged
integrate_weights_exchanged(engine, alpha, traditional, basal_coherence, anticipation) ==
    [psi |-> Clip(RDiv(alpha * traditional.psi
                       + (Scale - alpha) * basal_coherence, Scale), 0, Scale),
     rho |-> Clip(traditional.rho
                  + RDiv(alpha * Clip(anticipation, -Neutral, Neutral), Scale),
                  0, Scale),
     q   |-> Clip(RDiv(alpha * traditional.q
                       + (Scale - alpha) * get_reservoir_state(engine).average_energy,
                       Scale), 0, Scale),
     f   |-> Clip(RDiv(alpha * traditional.f
                       + (Scale - alpha)
                         * RDiv(Tanh(get_reservoir_state(engine).average_activation)
                                + Scale, 2), Scale), 0, Scale)]

\* the blend with the anticipation added to rho at full weight
integrate_unscaled_anticipation(engine, alpha, traditional, basal_coherence, anticipation) ==
    [psi |-> Clip(RDiv((Scale - alpha) * traditional.psi
                       + alpha * basal_coherence, Scale), 0, Scale),
     rho |-> Clip(traditional.rho + Clip(anticipation, -Neutral, Neutral),
                  0, Scale),
     q   |-> Clip(RDiv((Scale - alpha) * traditional.q
                       + alpha * get_reservoir_state(engine).average_energy,
                       Scale), 0, Scale),
     f   |-> Clip(RDiv((Scale - alpha) * traditional.f
                       + alpha
                         * RDiv(Tanh(get_reservoir_state(engine).average_activation)
                                + Scale, 2), Scale), 0, Scale)]

\* GCTBasalIntegrator._integrate_coherence_approaches; basal_coherence and
\* anticipation in milli
integrate_coherence_approaches(engine, alpha, traditional, basal_coherence, anticipation) ==
    LET state == get_reservoir_state(engine)
        anticipation_boost == Clip(anticipation, -Neutral, Neutral)
        activation_normalized == RDiv(Tanh(state.average_activation) + Scale, 2)
    IN ClampGCT(
         [psi |-> RDiv((Scale - alpha) * traditional.psi + alpha * basal_coherence,
                       Scale),
          rho |-> traditional.rho + RDiv(alpha * anticipation_boost, Scale),
          q   |-> RDiv((Scale - alpha) * traditional.q
                       + alpha * state.average_energy, Scale),
          f   |-> RDiv((Scale - alpha) * traditional.f
                       + alpha * activation_normalized, Scale)])

\* _compute_symbolic_resonance raises ZeroDivisionError (lines 283-284)
ResonanceRaises(history) ==
    Len(history) >= 3 /\ FromEnd(history, 3).price = 0

\* GCTBasalIntegrator._compute_symbolic_resonance.  With values that are
\* multiples of 0.001 a momentum exceeds 1e-6 exactly when it is not zero.
compute_symbolic_resonance(engine, history, market_data) ==
    LET price_momentum ==
            IF Len(history) >= 3
            THEN RDiv((market_data.price - FromEnd(history, 3).price) * Scale,
                      FromEnd(history, 3).price)
            ELSE 0
        momentum_sum ==
            IF Len(engine.nodes[0].activation_history) >= 2
            THEN SumF([n \in NodeIds |->
                          FromEnd(engine.nodes[n].activation_history, 1)
                          - FromEnd(engine.nodes[n].activation_history, 2)],
                      NodeIds)
            ELSE 0
        resonance ==
            IF price_momentum # 0 /\ momentum_sum # 0
            THEN Tanh(RDiv(price_momentum * momentum_sum, NumNodes))
            ELSE 0
    IN RDiv(resonance + Scale, 2)

\* lines 313-325 of _compute_prediction_confidence, given what
\* predict_market_pattern did
ConfidenceFrom(p) ==
    [engine |-> p.engine,
     confidence |->
        Clip(RDiv((IF Len(p.predictions) >= 2
                   THEN Exp(-RDiv(10 * Var(p.predictions), Scale))
                   ELSE Neutral)
                  * Exp(-RDiv(5 * get_reservoir_state(p.engine).energy_variance,
                              Scale)),
                  Scale),
             0, Scale)]

\* GCTBasalIntegrator._compute_prediction_confidence: [engine, confidence]
compute_prediction_confidence(engine, market_array) ==
    ConfidenceFrom(predict_market_pattern(engine, market_array, 3))

EnhancedPsis(results) == [i \in 1..Len(results) |-> results[i].basal_enhanced_gct.psi]

\* the efficiency measured against the ten oldest results of the log
adaptation_efficiency_against_oldest(results) ==
    IF Len(results) < 10 THEN Neutral
    ELSE LET recent_coherence == EnhancedPsis(LastN(results, 10))
             earlier_coherence == EnhancedPsis(SubSeq(results, 1, 10))
             improvement == Mean(recent_coherence) - Mean(earlier_coherence)
         IN RDiv(Tanh(improvement * 5) + Scale, 2)

\* GCTBasalIntegrator._compute_adaptation_efficiency
compute_adaptation_efficiency(results) ==
    IF Len(results) < 10 THEN Neutral
    ELSE LET recent_coherence == EnhancedPsis(LastN(results, 10))
             earlier_coherence ==
                 IF Len(results) >= 20
                 THEN EnhancedPsis(SubSeq(results, Len(results) - 19,
                                          Len(results) - 10))
                 ELSE recent_coherence
             improvement == Mean(recent_coherence) - Mean(earlier_coherence)
         IN RDiv(Tanh(improvement * 5) + Scale, 2)

\* a result whose efficiency is derived from the time of the call
ResultUsingClock(traditional_gct, basal_enhanced_gct, anticipation_capacity, prediction_confidence, symbolic_resonance, adaptation_efficiency, reservoir_state, clock) ==
    [traditional_gct |-> traditional_gct,
     basal_enhanced_gct |-> basal_enhanced_gct,
     anticipation_capacity |-> anticipation_capacity,
     prediction_confidence |-> prediction_confidence,
     symbolic_resonance |-> symbolic_resonance,
     adaptation_efficiency |-> IF clock % 2 = 0 THEN adaptation_efficiency ELSE 0,
     reservoir_state |-> reservoir_state,
     timestamp |-> clock]

\* The dataclass EnhancedCoherenceResult: the seven fields the caller passes
\* and timestamp, which defaults to datetime.now()
EnhancedCoherenceResult(traditional_gct, basal_enhanced_gct, anticipation_capacity, prediction_confidence, symbolic_resonance, adaptation_efficiency, reservoir_state, clock) ==
    [traditional_gct |-> traditional_gct,
     basal_enhanced_gct |-> basal_enhanced_gct,
     anticipation_capacity |-> anticipation_capacity,
     prediction_confidence |-> prediction_confidence,
     symbolic_resonance |-> symbolic_resonance,
     adaptation_efficiency |-> adaptation_efficiency,
     reservoir_state |-> reservoir_state,
     timestamp |-> clock]

\* reservoir_state={} of the fallback result
EmptyState == <<>>

\* a fallback whose vectors are zero like its scalar fields
fallback_with_zero_vectors(clock) ==
    EnhancedCoherenceResult([psi |-> 0, rho |-> 0, q |-> 0, f |-> 0],
                            [psi |-> 0, rho |-> 0, q |-> 0, f |-> 0],
                            0, 0, 0, 0, EmptyState, clock)

\* GCTBasalIntegrator._create_fallback_result
create_fallback_result(clock) ==
    EnhancedCoherenceResult(NeutralGCT, NeutralGCT, 0, 0, 0, 0, EmptyState, clock)

\* GCTBasalIntegrator._update_performance_metrics
update_performance_metrics(integ, result) ==
    LET h == integ.market_history
        price_change == FromEnd(h, 1).price - FromEnd(h, 2).price
        anticipation == result.anticipation_capacity
        accuracy == IF \/ (price_change > 0 /\ anticipation > 0)
                       \/ (price_change < 0 /\ anticipation < 0)
                    THEN Scale ELSE 0
    IN [integ EXCEPT
          !.prediction_accuracy_tracker =
              IF Len(h) >= 2 THEN PushCapped(@, accuracy, AccuracyTrackerCap)
              ELSE @,
          !.coherence_stability_tracker =
              PushCapped(@, result.basal_enhanced_gct.psi, StabilityTrackerCap)]

\* basal_reservoir_engine.py lines 33-44: the fields of the dataclass
\* BasalReservoirConfig, the only keyword arguments its __init__ accepts
BasalReservoirConfigFields ==
    { "num_nodes", "spatial_dimension", "learning_rate", "energy_decay",
      "connection_radius", "homeodynamic_strength", "coherence_coupling",
      "adaptation_rate", "prediction_horizon" }

\* lines 57-62: the keyword arguments the constructor passes to
\* BasalReservoirConfig when it is given no reservoir_config
DefaultConfigKwargs ==
    { "num_nodes", "learning_rate", "soulmath_coupling", "adaptation_rate" }

\* a dataclass __init__ raises TypeError on an unexpected keyword argument
BasalReservoirConfigRaises(kwargs) == ~(kwargs \subseteq BasalReservoirConfigFields)

\* lines 56-62: the constructor raises before any attribute is set when the
\* configuration it builds by default is rejected
ConstructorRaises(reservoir_config) ==
    reservoir_config = "None" /\ BasalReservoirConfigRaises(DefaultConfigKwargs)

\* GCTBasalIntegrator.__init__ around an engine built from the seed
NewIntegrator(seed) ==
    [basal_engine |-> NewEngine(seed),
     integration_strength |-> integration_strength,
     market_history |-> <<>>,
     coherence_results |-> <<>>,
     prediction_accuracy_tracker |-> <<>>,
     coherence_stability_tracker |-> <<>>]

\* lines 141-148: the result is logged, the metrics updated, the result
\* returned
LogResult(integ, result) ==
    [integ |-> update_performance_metrics(
                  [integ EXCEPT !.coherence_results =
                                   PushCapped(@, result, ResultLogCap)],
                  result),
     result |-> result]

\* lines 130-139: the result is built; pc is what the prediction stage left,
\* [engine, confidence]
BuildResult(integ, traditional_gct, enhanced_gct, anticipation, symbolic_resonance, pc, clock) ==
    LogResult([integ EXCEPT !.basal_engine = pc.engine],
              EnhancedCoherenceResult(
                  traditional_gct, enhanced_gct, anticipation, pc.confidence,
                  symbolic_resonance,
                  compute_adaptation_efficiency(integ.coherence_results),
                  get_reservoir_state(pc.engine), clock))

\* lines 117-128, with the reservoir advanced by lines 110-115
Integrate(integ, market_data, enable_prediction, clock, traditional_gct, advanced) ==
    IF ResonanceRaises(integ.market_history)
    THEN [integ |-> [integ EXCEPT !.basal_engine = advanced],
          result |-> create_fallback_result(clock)]
    ELSE BuildResult(
           integ, traditional_gct,
           integrate_coherence_approaches(
               advanced, integ.integration_strength, traditional_gct,
               LastCoherence(advanced), LastAnticipation(advanced)),
           LastAnticipation(advanced),
           compute_symbolic_resonance(advanced, integ.market_history, market_data),
           IF enable_prediction
           THEN compute_prediction_confidence(
                    advanced, prepare_market_data_for_reservoir(integ.market_history))
           ELSE [engine |-> advanced, confidence |-> 0],
           clock)

\* lines 103-115, with the data point already in the history
Analyze(integ, market_data, enable_prediction, clock) ==
    IF \/ TraditionalRaises(integ.market_history, market_data)
       \/ EncodeRaises(integ.market_history)
    THEN [integ |-> integ, result |-> create_fallback_result(clock)]
    ELSE Integrate(integ, market_data, enable_prediction, clock,
                   compute_traditional_gct(integ.market_history, market_data),
                   AdvanceReservoir(
                       integ.basal_engine,
                       encode_market_signals(integ.market_history, market_data)))

\* a failed call undone: the integrator as it was before the call
process_with_rollback(integ, market_data, enable_prediction, clock) ==
    LET r == Analyze([integ EXCEPT !.market_history =
                               PushCapped(@, market_data, MarketHistoryCap)],
                     market_data, enable_prediction, clock)
    IN  IF r.result.reservoir_state = EmptyState
        THEN [integ |-> integ, result |-> r.result]
        ELSE r

\* GCTBasalIntegrator.process_market_data_stream: [integ, result], the
\* integrator after the call and the result the call returns.  An exception
\* leaves the try block at the statement that raises it: what was assigned
\* before stays assigned, and the except branch returns the fallback.
\* clock is what datetime.now() returns during the call.
process_market_data_stream(integ, market_data, enable_prediction, clock) ==
    Analyze([integ EXCEPT !.market_history =
                             PushCapped(@, market_data, MarketHistoryCap)],
            market_data, enable_prediction, clock)

\* ------------------------------------------------------------------------
\* State
\* ------------------------------------------------------------------------

\* ig[k]        integrator k (with the engine it owns)
\* returned[k]  <<r>> when r is the result the latest call on integrator k
\*              returned, <<>> before the first call
\* calls[k]     the number of calls made on integrator k
\* tape         the arguments <<market_data, enable_prediction>> of the calls
\*              a live caller has made on integrator 1
\* feed         0 when the caller is live, else the recorded stream replayed
\* now          the clock: what datetime.now() returns
\* last         the latest call made directly on the engine of integrator 1:
\*              its name, its arguments and the array it returned
VARIABLES ig, returned, calls, tape, feed, now, last

vars == <<ig, returned, calls, tape, feed, now, last>>

Inst == {1, 2}

MaxCalls == 4

MediumLen == 30

LongLen == 1003

BlendLen == 20

MaxEngineSteps == 4

MaxStepsAhead == 2

DataPoints ==
    { [symbol |-> "AAA", price |-> 1000, volume |-> 100, sentiment |-> <<>>],
      [symbol |-> "AAA", price |-> 1500, volume |-> 0, sentiment |-> <<500>>],
      [symbol |-> "AAA", price |-> 0, volume |-> 300, sentiment |-> <<>>] }

\* The recorded feeds, as functions of the arrival index i:
\*   1: a flat market that turns into a steep rally, no sentiment,
\*      predictions enabled
\*   2: alternating prices with sentiment, volumes that drop to 0, a
\*      malformed point (price 0) every 37 points, predictions every other call
\*   3: a market nobody trades: slowly drifting prices, volume 0 throughout,
\*      sentiment on every third point
StreamPoint(s, i) ==
    IF s = 1
    THEN << [symbol |-> "AAA",
             price |-> IF i <= 14 THEN 1000 ELSE 1000 + 200 * (i - 14),
             volume |-> 100 + 10 * (i % 7), sentiment |-> <<>>], TRUE >>
    ELSE IF s = 2
    THEN << [symbol |-> "AAA",
             price |-> IF i % 37 = 0 THEN 0 ELSE 800 + 800 * (i % 2) + (i % 5),
             volume |-> 50 * (i % 3),
             sentiment |-> IF i % 4 = 0 THEN <<>> ELSE << 250 * ((i % 9) - 4) >>],
            i % 2 = 0 >>
    ELSE << [symbol |-> "AAA",
             price |-> 500 + 3 * i + 40 * (i % 4),
             volume |-> 0,
             sentiment |-> IF i % 3 = 0 THEN << 100 * (i % 5) >> ELSE <<>>], TRUE >>

Streams == {1, 2, 3}

\* external_inputs a direct caller hands to update_reservoir_state: none
\* (the default), or a signal of +-200.0 on every node
ExternalInputs ==
    { <<>>, [n \in NodeIds |-> 200 * Scale], [n \in NodeIds |-> -(200 * Scale)] }

\* series a direct caller hands to predict_market_pattern: empty, one
\* sample short of the minimum, and two samples more than the minimum
EngineSeries ==
    { <<>>,
      [i \in 1..(PredictMinSamples - 1) |-> 100 * i],
      [i \in 1..(PredictMinSamples + 2) |-> (37 * i * i) % 500] }

NoCall ==
    [op |-> "none", external_inputs |-> <<>>, market_data |-> <<>>,
     steps_ahead |-> 0, returned |-> <<>>]

InitWith(feeds) ==
    /\ \E seed \in Seeds : ig = [k \in Inst |-> NewIntegrator(seed)]
    /\ returned = [k \in Inst |-> <<>>]
    /\ calls = [k \in Inst |-> 0]
    /\ tape = <<>>
    /\ feed \in feeds
    /\ now = 0
    /\ last = NoCall

\* the caller holds what the call returned; r is [integ, result]
Returns(k, r) ==
    /\ ig' = [ig EXCEPT ![k] = r.integ]
    /\ returned' = [returned EXCEPT ![k] = <<r.result>>]
    /\ calls' = [calls EXCEPT ![k] = @ + 1]
    /\ now' = now + 1

\* one call of process_market_data_stream on integrator k
Call(k, market_data, enable_prediction) ==
    Returns(k, process_market_data_stream(ig[k], market_data, enable_prediction, now))

\* a live caller feeds a new data point to integrator 1
Process ==
    /\ feed = 0
    /\ Len(tape) < MaxCalls
    /\ \E market_data \in DataPoints, enable_prediction \in BOOLEAN :
          /\ Call(1, market_data, enable_prediction)
          /\ tape' = Append(tape, <<market_data, enable_prediction>>)
    /\ UNCHANGED <<feed, last>>

\* integrator 1 is fed the next point of the recorded stream, up to n points
StreamStep(n) ==
    /\ feed # 0
    /\ calls[1] < n
    /\ Call(1, StreamPoint(feed, calls[1] + 1)[1], StreamPoint(feed, calls[1] + 1)[2])
    /\ UNCHANGED <<tape, feed, last>>

\* the live caller feeds both integrators in turn: the next point goes to
\* integrator 1 once integrator 2 has caught up
ProcessPair ==
    /\ calls[2] = calls[1]
    /\ Process

\* integrator 2 is fed the call integrator 1 was fed at the same position
Replay ==
    /\ calls[2] < Len(tape)
    /\ Call(2, tape[calls[2] + 1][1], tape[calls[2] + 1][2])
    /\ UNCHANGED <<tape, feed, last>>

\* the number of update_reservoir_state calls the engine of integrator 1 has
\* seen, while fewer than NodeHistoryCap
StepsDone == Len(ig[1].basal_engine.nodes[0].activation_history)

\* a direct call of update_reservoir_state on the engine of integrator 1
EngineStep ==
    /\ StepsDone < MaxEngineSteps
    /\ \E external_inputs \in ExternalInputs :
          /\ ig' = [ig EXCEPT ![1].basal_engine =
                                 update_reservoir_state(@, external_inputs)]
          /\ last' = [NoCall EXCEPT !.op = "update_reservoir_state",
                                    !.external_inputs = external_inputs,
                                    !.returned = Activations(ig'[1].basal_engine)]
    /\ UNCHANGED <<returned, calls, tape, feed, now>>

\* the caller holds the array predict_market_pattern returned; p is
\* [engine, predictions]
Predicted(market_data, steps_ahead, p) ==
    /\ ig' = [ig EXCEPT ![1].basal_engine = p.engine]
    /\ last' = [NoCall EXCEPT !.op = "predict_market_pattern",
                              !.market_data = market_data,
                              !.steps_ahead = steps_ahead,
                              !.returned = p.predictions]

\* a direct call of predict_market_pattern on the engine of integrator 1
EnginePredict ==
    /\ \E market_data \in EngineSeries, steps_ahead \in 0..MaxStepsAhead :
          /\ StepsDone + steps_ahead <= MaxEngineSteps
          /\ Predicted(market_data, steps_ahead,
                       predict_market_pattern(ig[1].basal_engine, market_data,
                                              steps_ahead))
    /\ UNCHANGED <<returned, calls, tape, feed, now>>

Init == InitWith({0} \cup Streams)

Next == Process \/ StreamStep(MediumLen)

Spec == Init /\ [][Next]_vars

InitLong == InitWith({2})

NextLong == StreamStep(LongLen)

SpecLong == InitLong /\ [][NextLong]_vars

InitPair == InitWith({0})

NextPair == ProcessPair \/ Replay

SpecPair == InitPair /\ [][NextPair]_vars

\* the integration_strength a caller may pass to the constructor instead of
\* the default: none of the basal side, or all of it
Strengths == {0, integration_strength, Scale}

\* integrators constructed with an explicit integration_strength
InitBlend ==
    /\ \E seed \in Seeds, alpha \in Strengths :
          ig = [k \in Inst |->
                  [NewIntegrator(seed) EXCEPT !.integration_strength = alpha]]
    /\ returned = [k \in Inst |-> <<>>]
    /\ calls = [k \in Inst |-> 0]
    /\ tape = <<>>
    /\ feed \in Streams
    /\ now = 0
    /\ last = NoCall

NextBlend == StreamStep(BlendLen)

SpecBlend == InitBlend /\ [][NextBlend]_vars

\* a name the caller has not bound to an integrator yet
Unbound == [bound |-> FALSE]

\* what the caller may pass as reservoir_config: nothing (None), or a
\* BasalReservoirConfig it built itself from known fields
ReservoirConfigs == {"None", "BasalReservoirConfig"}

\* integrator = GCTBasalIntegrator(reservoir_config): the name is bound only
\* when the constructor returns
Construct ==
    /\ ig[1] = Unbound
    /\ \E reservoir_config \in ReservoirConfigs, seed \in Seeds :
          IF ConstructorRaises(reservoir_config)
          THEN /\ last' = [NoCall EXCEPT !.op = "GCTBasalIntegrator",
                                         !.external_inputs = reservoir_config,
                                         !.returned = "TypeError"]
               /\ UNCHANGED ig
          ELSE /\ last' = [NoCall EXCEPT !.op = "GCTBasalIntegrator",
                                         !.external_inputs = reservoir_config,
                                         !.returned = "integrator"]
               /\ ig' = [ig EXCEPT ![1] = NewIntegrator(seed)]
    /\ UNCHANGED <<returned, calls, tape, feed, now>>

\* the caller feeds the integrator it constructed
ProcessConstructed == ig[1] # Unbound /\ Process

InitCtor ==
    /\ ig = [k \in Inst |-> Unbound]
    /\ returned = [k \in Inst |-> <<>>]
    /\ calls = [k \in Inst |-> 0]
    /\ tape = <<>>
    /\ feed = 0
    /\ now = 0
    /\ last = NoCall

NextCtor == Construct \/ ProcessConstructed

SpecCtor == InitCtor /\ [][NextCtor]_vars

\* basal_market_analyzer.py lines 30-40: MarketAnalysisConfig defaults
analysis_window == 100

analyzer_prediction_horizon == 5

min_data_points == 20

\* the number of points per analyzed symbol in the batch handed to the
\* analyzer
PointsPerSymbol == 20

\* The batch handed to analyze_market_data: two symbols with
\* PointsPerSymbol points each, interleaved as they arrived and stamped in
\* reverse, and one symbol with a single point
AnalyzerBatch ==
    [i \in 1..(2 * PointsPerSymbol + 1) |->
        IF i = 2 * PointsPerSymbol + 1
        THEN [symbol |-> "CCC", price |-> 700, volume |-> 10, sentiment |-> <<>>,
              timestamp |-> 0]
        ELSE [symbol |-> IF i % 2 = 1 THEN "AAA" ELSE "BBB",
              price |-> IF i % 2 = 1 THEN 1000 + 10 * i ELSE 4000 - 25 * i,
              volume |-> 100 + 10 * (i % 7), sentiment |-> <<>>,
              timestamp |-> 2 * PointsPerSymbol - i]]

\* lines 255-263: the symbols of the batch in order of first appearance
\* (dict insertion order)
RECURSIVE SymbolsInOrder(_, _)
SymbolsInOrder(market_data, seen) ==
    IF market_data = <<>> THEN seen
    ELSE SymbolsInOrder(Tail(market_data),
                        IF \E i \in DOMAIN seen : seen[i] = Head(market_data).symbol
                        THEN seen ELSE Append(seen, Head(market_data).symbol))

\* lines 255-263: the points of one symbol, in batch order
RECURSIVE PointsOf(_, _)
PointsOf(market_data, symbol) ==
    IF market_data = <<>> THEN <<>>
    ELSE IF Head(market_data).symbol = symbol
         THEN <<Head(market_data)>> \o PointsOf(Tail(market_data), symbol)
         ELSE PointsOf(Tail(market_data), symbol)

group_data_by_symbol(market_data) ==
    [g \in DOMAIN SymbolsInOrder(market_data, <<>>) |->
        [symbol |-> SymbolsInOrder(market_data, <<>>)[g],
         data_points |-> PointsOf(market_data, SymbolsInOrder(market_data, <<>>)[g])]]

\* line 170: sorted(data_points, key=timestamp): each point goes to the
\* rank given by the number of points that sort before it (the sort is stable)
SortedByTimestamp(data_points) ==
    [r \in DOMAIN data_points |->
        data_points[CHOOSE i \in DOMAIN data_points :
            Cardinality({j \in DOMAIN data_points :
                \/ data_points[j].timestamp < data_points[i].timestamp
                \/ (data_points[j].timestamp = data_points[i].timestamp /\ j < i)})
              = r - 1]]

\* lines 128-133: the tasks of analyze_market_data, one per symbol with at
\* least min_data_points points, in the order gather starts them; each
\* holds the window of sorted points its loop will process (lines 170-173)
RECURSIVE TasksFrom(_)
TasksFrom(groups) ==
    IF groups = <<>> THEN <<>>
    ELSE (IF Len(Head(groups).data_points) >= min_data_points
          THEN << [symbol |-> Head(groups).symbol,
                   window |-> LastN(SortedByTimestamp(Head(groups).data_points),
                                    analysis_window),
                   recent_prices |-> Prices(LastN(SortedByTimestamp(
                                        Head(groups).data_points), 20))] >>
          ELSE <<>>) \o TasksFrom(Tail(groups))

AnalyzerTasks == TasksFrom(group_data_by_symbol(AnalyzerBatch))

\* The analyzer's coroutines never suspend (no await in them waits on I/O),
\* so gather runs the tasks one after the other. tape holds the predictions
\* of the finished tasks; calls[1] counts the points the analyzer's one
\* integrator (line 78) has processed.
CurrentTask == Len(tape) + 1

RECURSIVE PointsBefore(_)
PointsBefore(t) == IF t <= 1 THEN 0 ELSE Len(AnalyzerTasks[t - 1].window) + PointsBefore(t - 1)

\* lines 173-175: the loop of _analyze_symbol_data hands the next point of
\* the current symbol to self.integrator
AnalyzeSymbolPoint ==
    /\ CurrentTask <= Len(AnalyzerTasks)
    /\ calls[1] - PointsBefore(CurrentTask) < Len(AnalyzerTasks[CurrentTask].window)
    /\ Call(1, AnalyzerTasks[CurrentTask].window[calls[1] - PointsBefore(CurrentTask) + 1], TRUE)
    /\ UNCHANGED <<tape, feed, last>>

\* lines 184-190 and 225-228: after the loop the task predicts from the
\* symbol's recent prices on the same engine and stores its prediction
AnalyzeSymbolPredict ==
    /\ CurrentTask <= Len(AnalyzerTasks)
    /\ calls[1] - PointsBefore(CurrentTask) = Len(AnalyzerTasks[CurrentTask].window)
    /\ Predicted(AnalyzerTasks[CurrentTask].recent_prices, analyzer_prediction_horizon,
                 predict_market_pattern(ig[1].basal_engine,
                                        AnalyzerTasks[CurrentTask].recent_prices,
                                        analyzer_prediction_horizon))
    /\ tape' = Append(tape, AnalyzerTasks[CurrentTask].symbol)
    /\ UNCHANGED <<returned, calls, feed, now>>

InitAnalyzer == InitWith({0})

NextAnalyzer == AnalyzeSymbolPoint \/ AnalyzeSymbolPredict

SpecAnalyzer == InitAnalyzer /\ [][NextAnalyzer]_vars

\* the number of steps of the quiet run
QuietSteps == 25

\* the constant external input {0: 0.0}
ZeroInput == [n \in {0} |-> 0]

\* one step of a fresh engine driven with the constant input {0: 0.0}
QuietStep ==
    /\ StepsDone < QuietSteps
    /\ ig' = [ig EXCEPT ![1].basal_engine = update_reservoir_state(@, ZeroInput)]
    /\ last' = [NoCall EXCEPT !.op = "update_reservoir_state",
                              !.external_inputs = ZeroInput,
                              !.returned = Activations(ig'[1].basal_engine)]
    /\ UNCHANGED <<returned, calls, tape, feed, now>>

InitQuiet == InitWith({0})

NextQuiet == QuietStep

SpecQuiet == InitQuiet /\ [][NextQuiet]_vars

\* the length of the rising price sequences
RiseLen == 5

\* the prices the rising sequences are drawn from
RisePrices == {1000, 1050, 1100, 1200, 1600, 3000, 8000}

\* the k-th smallest element of a finite set of numbers
Ranked(S, k) == CHOOSE x \in S : Cardinality({y \in S : y < x}) = k - 1

\* every strictly increasing sequence of RiseLen prices
RisingSequences ==
    { [i \in 1..RiseLen |-> Ranked(S, i)] :
        S \in {T \in SUBSET RisePrices : Cardinality(T) = RiseLen} }

\* a fresh integrator and the rising sequence it will be fed, on tape
InitRise ==
    /\ \E seed \in Seeds : ig = [k \in Inst |-> NewIntegrator(seed)]
    /\ returned = [k \in Inst |-> <<>>]
    /\ calls = [k \in Inst |-> 0]
    /\ tape \in RisingSequences
    /\ feed = 0
    /\ now = 0
    /\ last = NoCall

\* integrator 1 is fed the next price of the sequence, at constant volume
RiseStep ==
    /\ calls[1] < Len(tape)
    /\ Call(1, [symbol |-> "AAA", price |-> tape[calls[1] + 1], volume |-> 100,
                sentiment |-> <<>>], TRUE)
    /\ UNCHANGED <<tape, feed, last>>

NextRise == RiseStep

SpecRise == InitRise /\ [][NextRise]_vars

\* the number of direct compute_enhanced_coherence calls
MaxCoherenceCalls == 6

\* engine.update_reservoir_state() with no argument, as the tests call it
EngineIdleStep ==
    /\ StepsDone < MaxEngineSteps
    /\ ig' = [ig EXCEPT ![1].basal_engine = update_reservoir_state(@, <<>>)]
    /\ last' = [NoCall EXCEPT !.op = "update_reservoir_state",
                              !.returned = Activations(ig'[1].basal_engine)]
    /\ UNCHANGED <<returned, calls, tape, feed, now>>

\* a direct call of compute_enhanced_coherence on the engine of integrator 1
EngineCoherence ==
    /\ Len(ig[1].basal_engine.coherence_history) < MaxCoherenceCalls
    /\ ig' = [ig EXCEPT ![1].basal_engine = compute_enhanced_coherence(@)]
    /\ last' = [NoCall EXCEPT !.op = "compute_enhanced_coherence",
                              !.returned = ig'[1].basal_engine.psi]
    /\ UNCHANGED <<returned, calls, tape, feed, now>>

InitCoherence == InitWith({0})

NextCoherence == EngineIdleStep \/ EngineCoherence

SpecCoherence == InitCoherence /\ [][NextCoherence]_vars

\* ---- enhanced_gct_framework.py: the stability monitor ----

\* MarketStabilityMonitor thresholds, lines 52-55 (milli where fractional)
contradiction_threshold == 3

volatility_threshold == 1500

pattern_loop_threshold == 5

degradation_threshold == 700

MetricsHistoryCap == 100

StabilityHistoryCap == 200

PatternHistoryCap == 50

DistortionHistoryCap == 100

\* EnhancedGCTCalculator.__init__ with its three collaborators
NewCalculator ==
    [stability_monitor |->
        [contradiction_count |-> 0, volatility_pressure |-> 0, pattern_loops |-> 0,
         signal_degradation |-> 0, stability_history |-> <<>>,
         metrics_history |-> <<>>],
     pattern_engine |-> [pattern_history |-> <<>>, signal_variance |-> 0],
     distortion_detector |-> [distortion_history |-> <<>>]]

\* np.diff
Diff(s) == [i \in 1..(Len(s) - 1) |-> s[i + 1] - s[i]]

\* lines 76-78: the number of sign changes between successive price changes
Reversals(price_changes) ==
    Cardinality({i \in 1..(Len(price_changes) - 1) :
                    price_changes[i] * price_changes[i + 1] < 0})

\* lines 288-335: calculate_enhanced_dimensions (milli); prices and volumes
\* enter only through scale-free ratios
calculate_enhanced_dimensions(market_data) ==
    IF Len(market_data.prices) < 5 THEN NeutralGCT
    ELSE ClampGCT(
           [psi |-> Exp(-2 * Ratio(Std(LastN(market_data.prices, 10)),
                                   Mean(LastN(market_data.prices, 10)))),
            rho |-> IF Len(market_data.prices) >= 10
                    THEN TrendRho(LastN(market_data.prices, 10))
                    ELSE Neutral,
            q   |-> IF Len(market_data.volumes) >= 5
                    THEN RDiv(Tanh(Ratio(5 * FromEnd(market_data.volumes, 1),
                                         SumSeq(LastN(market_data.volumes, 5)))
                                   - Scale) + Scale, 2)
                    ELSE Neutral,
            f   |-> IF market_data.sentiment # <<>>
                    THEN RDiv(market_data.sentiment[1] + Scale, 2)
                    ELSE RDiv(Tanh(RDiv((FromEnd(market_data.prices, 1)
                                         - FromEnd(market_data.prices, 3)) * Scale,
                                        FromEnd(market_data.prices, 3)) * 10)
                              + Scale, 2)])

\* line 33-35: sqrt(psi^2 + rho^2 + q^2 + f^2) / 2, milli
coherence_magnitude(g) ==
    ISqrt(g.psi * g.psi + g.rho * g.rho + g.q * g.q + g.f * g.f) \div 2

\* lines 83-90: np.var(np.diff(volumes[-5:])) / (mean + 1e-8) < 0.01, the
\* volumes in their own unit
VolumeVarianceLow(volume_data) ==
    \/ Var(Diff(LastN(volume_data, 5))) = 0
    \/ 100 * Var(Diff(LastN(volume_data, 5))) < Mean(LastN(volume_data, 5))

\* lines 69-80 of update_metrics: volatility pressure and contradictions
PressureUpdated(monitor, price_data) ==
    IF Len(price_data) < 5 THEN monitor
    ELSE [monitor EXCEPT
            !.volatility_pressure =
                10 * Ratio(Std(LastN(price_data, 5)), Mean(LastN(price_data, 5))),
            !.contradiction_count =
                IF Len(price_data) >= 10
                THEN Reversals(Diff(LastN(price_data, 10)))
                ELSE @]

\* lines 82-90 of update_metrics: pattern loops
LoopsUpdated(monitor, volume_data) ==
    IF Len(volume_data) < 5 THEN monitor
    ELSE [monitor EXCEPT
            !.pattern_loops = IF VolumeVarianceLow(volume_data)
                              THEN @ + 1 ELSE Max(0, @ - 1)]

\* lines 92-98 of update_metrics: signal degradation
DegradationUpdated(monitor, coherence_data) ==
    [monitor EXCEPT
        !.signal_degradation = IF coherence_magnitude(coherence_data) < 300
                               THEN @ + 100 ELSE Max(0, @ - 50)]

\* lines 100-104: the metrics of the call are logged
MetricsLogged(monitor, price_data, volume_data) ==
    [monitor EXCEPT
        !.metrics_history =
            PushCapped(@, [volatility_pressure |->
                              IF Len(price_data) >= 5
                              THEN <<monitor.volatility_pressure>> ELSE <<>>,
                           contradiction_count |->
                              IF Len(price_data) >= 10
                              THEN <<monitor.contradiction_count>> ELSE <<>>,
                           pattern_loops |->
                              IF Len(volume_data) >= 5
                              THEN <<monitor.pattern_loops>> ELSE <<>>,
                           signal_degradation |-> monitor.signal_degradation],
                       MetricsHistoryCap)]

\* MarketStabilityMonitor.update_metrics: the monitor after the call
update_metrics(monitor, price_data, volume_data, coherence_data) ==
    MetricsLogged(
      DegradationUpdated(
        LoopsUpdated(PressureUpdated(monitor, price_data), volume_data),
        coherence_data),
      price_data, volume_data)

\* the verdict with the pattern loops left out of it
evaluate_stability_ignoring_loops(monitor) ==
    IF \/ 2 * monitor.contradiction_count > 3 * contradiction_threshold
       \/ monitor.volatility_pressure > 2 * volatility_threshold
       \/ 10 * monitor.signal_degradation > 12 * degradation_threshold
    THEN "CRITICAL"
    ELSE IF \/ monitor.contradiction_count > contradiction_threshold
            \/ monitor.volatility_pressure > volatility_threshold
            \/ monitor.signal_degradation > degradation_threshold
         THEN "REBALANCE_REQUIRED"
         ELSE "STABLE"

\* lines 107-123 of evaluate_stability: the verdict
evaluate_stability(monitor) ==
    IF \/ 2 * monitor.contradiction_count > 3 * contradiction_threshold
       \/ monitor.volatility_pressure > 2 * volatility_threshold
       \/ 10 * monitor.signal_degradation > 12 * degradation_threshold
    THEN "CRITICAL"
    ELSE IF \/ monitor.contradiction_count > contradiction_threshold
            \/ monitor.volatility_pressure > volatility_threshold
            \/ monitor.pattern_loops > pattern_loop_threshold
            \/ monitor.signal_degradation > degradation_threshold
         THEN "REBALANCE_REQUIRED"
         ELSE "STABLE"

\* lines 125-129: the verdict is logged with the time of the call
StabilityLogged(monitor, clock) ==
    [monitor EXCEPT
        !.stability_history =
            PushCapped(@, <<clock, evaluate_stability(monitor)>>, StabilityHistoryCap)]

\* lines 165-197: detect_self_similarity returns the normalized score
\* (milli) and stores the signal and its variance
PatternScore(signal_array) ==
    LET score == RDiv(SumSeq([i \in 1..Len(signal_array) |->
                                 Abs(signal_array[i] - Mean(signal_array))]),
                      Len(signal_array))
        values == {signal_array[i] : i \in DOMAIN signal_array}
        hi == CHOOSE x \in values : \A y \in values : y <= x
        lo == CHOOSE x \in values : \A y \in values : y >= x
    IN IF hi - lo > 0 THEN RDiv(score * Scale, hi - lo) ELSE Scale

PatternStored(engine, signal_sequence) ==
    IF Len(signal_sequence) < 10 THEN engine
    ELSE [pattern_history |-> PushCapped(engine.pattern_history,
                                         LastN(signal_sequence, 10), PatternHistoryCap),
          signal_variance |-> Var(LastN(signal_sequence, 10))]

\* lines 233-255: calculate_market_distortion, the sum C + B + E (milli)
Distortion(contradictions, bias_factor, volatility) ==
    Clip(contradictions * 100, 0, Scale) + Clip(bias_factor, 0, Scale)
    + Clip(volatility, 0, Scale)

DistortionStored(detector, distortion) ==
    [distortion_history |->
        PushCapped(detector.distortion_history, distortion, DistortionHistoryCap)]

\* lines 381-386: the arguments analyze_market_state hands to the detector
DistortionOf(monitor, price_data, enhanced_gct) ==
    Distortion(IF Len(price_data) >= 10 THEN monitor.contradiction_count ELSE 0,
               Abs(enhanced_gct.psi - Neutral) * 2,
               RDiv(monitor.volatility_pressure, 10))

\* lines 360-386 and 407-420 of analyze_market_state, given the enhanced
\* dimensions and the updated monitor: [calculator, result]
AnalysisFrom(calculator, market_data, enhanced_gct, monitor, clock) ==
    IF Len(market_data.prices) < 5
    THEN [calculator |-> calculator,
          result |-> [stability_state |-> "STABLE",
                      enhanced_gct_dimensions |-> enhanced_gct,
                      pattern_score |-> 0, distortion_factor |-> 0]]
    ELSE [calculator |->
             [stability_monitor |-> StabilityLogged(monitor, clock),
              pattern_engine |-> PatternStored(calculator.pattern_engine,
                                               market_data.prices),
              distortion_detector |->
                 DistortionStored(calculator.distortion_detector,
                                  DistortionOf(monitor, market_data.prices,
                                               enhanced_gct))],
          result |-> [stability_state |-> evaluate_stability(monitor),
                      enhanced_gct_dimensions |-> enhanced_gct,
                      pattern_score |-> IF Len(market_data.prices) >= 10
                                        THEN PatternScore(LastN(market_data.prices, 10))
                                        ELSE 0,
                      distortion_factor |->
                         Clip(RDiv(DistortionOf(monitor, market_data.prices,
                                                enhanced_gct), 3), 0, Scale)]]

AnalysisWith(calculator, market_data, enhanced_gct, clock) ==
    AnalysisFrom(calculator, market_data, enhanced_gct,
                 update_metrics(calculator.stability_monitor, market_data.prices,
                                market_data.volumes, enhanced_gct),
                 clock)

\* EnhancedGCTCalculator.analyze_market_state
analyze_market_state(calculator, market_data, clock) ==
    AnalysisWith(calculator, market_data,
                 calculate_enhanced_dimensions(market_data), clock)

\* the number of analyses one calculator is asked for
MaxAnalyses == 7

\* prices in cents, volumes in thousands.  The two data sets of
\* test_stability_monitoring and a calm market with changing volumes:
\*   stable:   100.00, 100.01, ... (20 prices), constant volume, sentiment 0
\*   volatile: 100, 95, 105, 90, 110, 85, 115 three times, constant volume
\*   calm:     7 slowly falling prices, volumes that change
StableData ==
    [prices |-> [i \in 1..20 |-> 10000 + (i - 1)],
     volumes |-> [i \in 1..20 |-> 1000], sentiment |-> <<0>>]

VolatileData ==
    [prices |-> [i \in 1..21 |->
                    <<10000, 9500, 10500, 9000, 11000, 8500, 11500>>[((i - 1) % 7) + 1]],
     volumes |-> [i \in 1..21 |-> 1000], sentiment |-> <<0>>]

CalmData ==
    [prices |-> [i \in 1..7 |-> 5000 - i],
     volumes |-> [i \in 1..7 |-> 1000 + 300 * (i % 3)], sentiment |-> <<0>>]

MarketStates == {StableData, VolatileData, CalmData}

\* In this specification ig[1] is the EnhancedGCTCalculator under test.
InitStability ==
    /\ ig = [k \in Inst |-> NewCalculator]
    /\ returned = [k \in Inst |-> <<>>]
    /\ calls = [k \in Inst |-> 0]
    /\ tape = <<>>
    /\ feed = 0
    /\ now = 0
    /\ last = NoCall

\* calculator.analyze_market_state(market_data); r is [calculator, result]
Analyzed(market_data, r) ==
    /\ ig' = [ig EXCEPT ![1] = r.calculator]
    /\ returned' = [returned EXCEPT ![1] = <<r.result>>]
    /\ last' = [NoCall EXCEPT !.op = "analyze_market_state",
                              !.market_data = market_data,
                              !.returned = r.result.stability_state]

AnalyzeMarketState ==
    /\ calls[1] < MaxAnalyses
    /\ \E market_data \in MarketStates :
          Analyzed(market_data, analyze_market_state(ig[1], market_data, now))
    /\ calls' = [calls EXCEPT ![1] = @ + 1]
    /\ now' = now + 1
    /\ UNCHANGED <<tape, feed>>

NextStability == AnalyzeMarketState

SpecStability == InitStability /\ [][NextStability]_vars

\* the length of a long engine run and the step after which its drive
\* changes sign
RunSteps == 28

RunSwitch == 16

\* The external inputs of a long run, as a function of the run and of the
\* number of the step:
\*   1: +200.0 on every node for RunSwitch steps, then -200.0
\*   2: -200.0 on every node for RunSwitch steps, then +200.0
\*   3: +200.0, no input, -200.0, in turn
RunInput(r, step) ==
    IF r = 1
    THEN [n \in NodeIds |-> IF step <= RunSwitch THEN 200 * Scale ELSE -(200 * Scale)]
    ELSE IF r = 2
    THEN [n \in NodeIds |-> IF step <= RunSwitch THEN -(200 * Scale) ELSE 200 * Scale]
    ELSE IF step % 3 = 1 THEN [n \in NodeIds |-> 200 * Scale]
    ELSE IF step % 3 = 2 THEN <<>>
    ELSE [n \in NodeIds |-> -(200 * Scale)]

Runs == {1, 2, 3}

\* the next step of the long run on the engine of integrator 1
RunStep ==
    /\ StepsDone < RunSteps
    /\ ig' = [ig EXCEPT ![1].basal_engine =
                            update_reservoir_state(@, RunInput(feed, StepsDone + 1))]
    /\ last' = [NoCall EXCEPT !.op = "update_reservoir_state",
                              !.external_inputs = RunInput(feed, StepsDone + 1),
                              !.returned = Activations(ig'[1].basal_engine)]
    /\ UNCHANGED <<returned, calls, tape, feed, now>>

InitRun == InitWith(Runs)

NextRun == RunStep

SpecRun == InitRun /\ [][NextRun]_vars

\* the number of steps with an input addressed to a single node
MaxKeyedSteps == 3

\* external_inputs with one key: the signal +-200.0 addressed to node k
KeyedInputs ==
    { [n \in {k} |-> v] : k \in NodeIds, v \in {200 * Scale, -(200 * Scale)} }

\* a step whose input map addresses one node
EngineKeyedStep ==
    /\ StepsDone < MaxKeyedSteps
    /\ \E external_inputs \in KeyedInputs :
          /\ ig' = [ig EXCEPT ![1].basal_engine =
                                 update_reservoir_state(@, external_inputs)]
          /\ last' = [NoCall EXCEPT !.op = "update_reservoir_state",
                                    !.external_inputs = external_inputs,
                                    !.returned = Activations(ig'[1].basal_engine)]
    /\ UNCHANGED <<returned, calls, tape, feed, now>>

InitKeyed == InitWith({0})

NextKeyed == EngineKeyedStep

SpecKeyed == InitKeyed /\ [][NextKeyed]_vars

\* ------------------------------------------------------------------------
\* Calls scheduled concurrently on one event loop
\* ------------------------------------------------------------------------

\* what asyncio suspends a coroutine on
LoopPrimitives == { "asyncio.sleep", "asyncio.gather" }

\* a coroutine with one more await: _compute_traditional_gct sleeping
\* before it reads the history
AwaitedWithSleep(coroutine) ==
    CASE coroutine = "process_market_data_stream" ->
           { "_compute_traditional_gct", "_compute_prediction_confidence" }
      [] coroutine = "_compute_traditional_gct" -> { "asyncio.sleep" }
      [] OTHER -> {}

\* the await expressions in the body of each coroutine of the integrator:
\* lines 104 and 128 of process_market_data_stream, none in lines 155-200
\* of _compute_traditional_gct nor in lines 306-329 of
\* _compute_prediction_confidence
Awaited(coroutine) ==
    CASE coroutine = "process_market_data_stream" ->
           { "_compute_traditional_gct", "_compute_prediction_confidence" }
      [] coroutine = "_compute_traditional_gct" -> {}
      [] OTHER -> {}

\* awaiting a coroutine runs its body in the caller's task: the task yields
\* to the event loop only when the body reaches a loop primitive
RECURSIVE Suspends(_)
Suspends(coroutine) ==
    \/ coroutine \in LoopPrimitives
    \/ \E awaited \in Awaited(coroutine) : Suspends(awaited)

\* a task the event loop holds for one process_market_data_stream call:
\* its arguments, the line it is to resume at, its local variables when it
\* is suspended, and <<result>> once it has returned
NewTask(market_data, enable_prediction) ==
    [market_data |-> market_data, enable_prediction |-> enable_prediction,
     pc |-> "scheduled", frame |-> <<>>, result |-> <<>>]

TaskDone(integ, task, result) ==
    [integ |-> integ,
     task |-> [task EXCEPT !.pc = "done", !.frame = <<>>, !.result = <<result>>]]

TaskReturns(task, r) == TaskDone(r.integ, task, r.result)

\* lines 128-149: the task resumes with its locals, and reads the engine
\* and the result log as they are now
FromLine128(integ, task, clock) ==
    TaskReturns(
      task,
      BuildResult(integ, task.frame.traditional_gct, task.frame.enhanced_gct,
                  task.frame.anticipation, task.frame.symbolic_resonance,
                  IF task.enable_prediction
                  THEN compute_prediction_confidence(integ.basal_engine,
                                                     task.frame.market_array)
                  ELSE [engine |-> integ.basal_engine, confidence |-> 0],
                  clock))

\* lines 113-127: the locals the call holds when it reaches line 128
Line128Frame(integ, market_data, traditional_gct) ==
    [traditional_gct |-> traditional_gct,
     market_array |-> prepare_market_data_for_reservoir(integ.market_history),
     enhanced_gct |->
         integrate_coherence_approaches(
             integ.basal_engine, integ.integration_strength, traditional_gct,
             LastCoherence(integ.basal_engine),
             LastAnticipation(integ.basal_engine)),
     anticipation |-> LastAnticipation(integ.basal_engine),
     symbolic_resonance |->
         compute_symbolic_resonance(integ.basal_engine, integ.market_history,
                                    market_data)]

ToLine128(integ, task, clock) ==
    IF task.enable_prediction /\ Suspends("_compute_prediction_confidence")
    THEN [integ |-> integ, task |-> [task EXCEPT !.pc = "line 128"]]
    ELSE FromLine128(integ, task, clock)

\* lines 113-127, the engine already stepped
FromLine113(integ, task, clock, traditional_gct) ==
    IF ResonanceRaises(integ.market_history)
    THEN TaskDone(integ, task, create_fallback_result(clock))
    ELSE ToLine128(integ,
                   [task EXCEPT !.frame =
                       Line128Frame(integ, task.market_data, traditional_gct)],
                   clock)

\* lines 104-111: the traditional coherence, the encoding, the engine step
FromLine104(integ, task, clock) ==
    IF \/ TraditionalRaises(integ.market_history, task.market_data)
       \/ EncodeRaises(integ.market_history)
    THEN TaskDone(integ, task, create_fallback_result(clock))
    ELSE FromLine113(
           [integ EXCEPT !.basal_engine =
               AdvanceReservoir(@, encode_market_signals(integ.market_history,
                                                         task.market_data))],
           task, clock,
           compute_traditional_gct(integ.market_history, task.market_data))

ToLine104(integ, task, clock) ==
    IF Suspends("_compute_traditional_gct")
    THEN [integ |-> integ, task |-> [task EXCEPT !.pc = "line 104"]]
    ELSE FromLine104(integ, task, clock)

\* lines 97-100: the point is appended to the history
FromStart(integ, task, clock) ==
    ToLine104([integ EXCEPT !.market_history =
                               PushCapped(@, task.market_data, MarketHistoryCap)],
              task, clock)

\* the event loop runs a task from where it stands to its next suspension
\* or to its return: [integ, task]
ResumeTask(integ, task, clock) ==
    CASE task.pc = "scheduled" -> FromStart(integ, task, clock)
      [] task.pc = "line 104" -> FromLine104(integ, task, clock)
      [] task.pc = "line 128" -> FromLine128(integ, task, clock)

MaxGathers == 1

InitLoop == InitWith({0})

AllDone == \A t \in DOMAIN tape : tape[t].pc = "done"

\* asyncio.gather of two process_market_data_stream calls on integrator 1:
\* both are scheduled before either runs.  In this specification tape holds
\* the tasks of the latest gather.
Gather ==
    /\ AllDone
    /\ calls[1] < 2 * MaxGathers
    /\ \E a \in DataPoints, b \in DataPoints, ea \in BOOLEAN, eb \in BOOLEAN :
          tape' = << NewTask(a, ea), NewTask(b, eb) >>
    /\ UNCHANGED <<ig, returned, calls, feed, now, last>>

\* the loop has run task t; r is [integ, task]
Resumed(t, r) ==
    /\ ig' = [ig EXCEPT ![1] = r.integ]
    /\ tape' = [tape EXCEPT ![t] = r.task]
    /\ IF r.task.pc = "done"
       THEN /\ returned' = [returned EXCEPT ![1] = r.task.result]
            /\ calls' = [calls EXCEPT ![1] = @ + 1]
            /\ now' = now + 1
       ELSE UNCHANGED <<returned, calls, now>>

\* the event loop, idle, picks a task that can run and runs it until the
\* task suspends or returns
LoopRun ==
    /\ \E t \in DOMAIN tape :
          /\ tape[t].pc # "done"
          /\ Resumed(t, ResumeTask(ig[1], tape[t], now))
    /\ UNCHANGED <<feed, last>>

NextLoop == Gather \/ LoopRun

SpecLoop == InitLoop /\ [][NextLoop]_vars

\* ------------------------------------------------------------------------
\* Engine runs long enough for the targets to reach their limits
\* ------------------------------------------------------------------------

AdaptSteps == 2800

\* the half-periods of the square drive of run 1
DriveUp == 13

DriveDown == 9

\* The external inputs of step number step of an adaptation run:
\*   1: a square drive, +200.0 on every node for DriveUp steps and -200.0
\*      for DriveDown steps, which keeps the energies swinging
\*   2: no input at all, which lets the energies settle
AdaptInput(r, step) ==
    IF r = 1
    THEN [n \in NodeIds |->
             IF (step - 1) % (DriveUp + DriveDown) < DriveUp
             THEN 200 * Scale ELSE -(200 * Scale)]
    ELSE <<>>

AdaptRuns == {1, 2}

\* the next step of the adaptation run on the engine of integrator 1; the
\* clock counts the steps
AdaptStep ==
    /\ now < AdaptSteps
    /\ ig' = [ig EXCEPT ![1].basal_engine =
                            update_reservoir_state(@, AdaptInput(feed, now + 1))]
    /\ last' = [NoCall EXCEPT !.op = "update_reservoir_state",
                              !.external_inputs = AdaptInput(feed, now + 1),
                              !.returned = Activations(ig'[1].basal_engine)]
    /\ now' = now + 1
    /\ UNCHANGED <<returned, calls, tape, feed>>

InitAdapt == InitWith(AdaptRuns)

NextAdapt == AdaptStep

SpecAdapt == InitAdapt /\ [][NextAdapt]_vars

InitEngine == InitWith({0})

NextEngine == EngineStep \/ EnginePredict

SpecEngine == InitEngine /\ [][NextEngine]_vars

\* ------------------------------------------------------------------------
\* Properties
\* ------------------------------------------------------------------------

InUnit(x) == 0 <= x /\ x <= Scale

InUnitGCT(g) == InUnit(g.psi) /\ InUnit(g.rho) /\ InUnit(g.q) /\ InUnit(g.f)

\* the result is the one the except branch returns
IsFallback(r) == r.reservoir_state = EmptyState

Engine1 == ig[1].basal_engine

\* C1: every result process_market_data_stream returns, regular or
\* fallback, has the four components of the traditional vector, the four
\* components of the blended vector, prediction_confidence,
\* symbolic_resonance and adaptation_efficiency in [0,1].
ResultValuesInUnitInterval ==
    \A k \in Inst :
       returned[k] # <<>> =>
          /\ InUnitGCT(returned[k][1].traditional_gct)
          /\ InUnitGCT(returned[k][1].basal_enhanced_gct)
          /\ InUnit(returned[k][1].prediction_confidence)
          /\ InUnit(returned[k][1].symbolic_resonance)
          /\ InUnit(returned[k][1].adaptation_efficiency)

\* a regular result computed from a full trend window, with a prediction,
\* whose blended trend strength sits on a clamp
RegularResultAtClamp ==
    /\ calls[1] >= TrendMinSamples
    /\ returned[1] # <<>>
    /\ ~IsFallback(returned[1][1])
    /\ returned[1][1].prediction_confidence > 0
    /\ returned[1][1].basal_enhanced_gct.rho \in {0, Scale}

\* C2: after construction and after any number of engine steps with
\* arbitrary external inputs, the energy of every node lies in [0,1].
NodeEnergyInUnitInterval ==
    \A k \in Inst : \A n \in NodeIds : InUnit(ig[k].basal_engine.nodes[n].energy)

\* steps under adversarial input have driven a node's energy onto a clamp
EnergyDrivenToClamp ==
    /\ last.op = "update_reservoir_state"
    /\ last.external_inputs # <<>>
    /\ \E n \in NodeIds : Engine1.nodes[n].energy \in {0, Scale}

\* C3: after any number of engine steps every connection weight of every
\* node, incoming or outgoing, touched by learning or not, has magnitude at
\* most 2.
WeightsWithinClip ==
    StepsDone >= 1 =>
       \A n \in NodeIds :
          /\ \A m \in DOMAIN Engine1.nodes[n].incoming_weights :
                Abs(Engine1.nodes[n].incoming_weights[m]) <= WeightClip
          /\ \A m \in DOMAIN Engine1.nodes[n].outgoing_weights :
                Abs(Engine1.nodes[n].outgoing_weights[m]) <= WeightClip

\* the latest call on the integrator raised inside the try block; the data
\* point it handled is the last of the history
Raised(integ) ==
    \/ TraditionalRaises(integ.market_history, FromEnd(integ.market_history, 1))
    \/ EncodeRaises(integ.market_history)
    \/ ResonanceRaises(integ.market_history)

\* C4: when an exception is raised while process_market_data_stream handles
\* a data point, the call returns the neutral fallback result: both vectors
\* all 0.5, anticipation, confidence, resonance and efficiency all 0.
ExceptionGivesNeutralFallback ==
    \A k \in Inst :
       (returned[k] # <<>> /\ Raised(ig[k])) =>
          /\ returned[k][1].traditional_gct = NeutralGCT
          /\ returned[k][1].basal_enhanced_gct = NeutralGCT
          /\ returned[k][1].anticipation_capacity = 0
          /\ returned[k][1].prediction_confidence = 0
          /\ returned[k][1].symbolic_resonance = 0
          /\ returned[k][1].adaptation_efficiency = 0

\* the call that just returned raised, after earlier calls that did not
FallbackAfterRegularResults ==
    /\ returned[1] # <<>>
    /\ Raised(ig[1])
    /\ IsFallback(returned[1][1])
    /\ Len(ig[1].coherence_results) >= 1

\* the computed fields of a result: all but the timestamp
Computed(r) == [r EXCEPT !.timestamp = 0]

\* C5: two fresh integrators with the same initial engine and integration
\* strength, fed the same calls, return the same results: the k-th results
\* agree on every computed field.
SameResultsFromSameCalls ==
    /\ calls[1] = calls[2] /\ returned[1] # <<>> =>
          Computed(returned[1][1]) = Computed(returned[2][1])
    /\ \A i \in 1..Len(ig[2].coherence_results) :
          /\ i <= Len(ig[1].coherence_results)
          /\ Computed(ig[2].coherence_results[i])
                = Computed(ig[1].coherence_results[i])

\* both integrators have handled the same calls, several of them, at
\* different times, and the latest result is a regular one
PairInStepAtDifferentTimes ==
    /\ calls[1] = calls[2]
    /\ calls[2] >= 3
    /\ ~IsFallback(returned[2][1])
    /\ returned[1][1].timestamp # returned[2][1].timestamp
    /\ returned[2][1].prediction_confidence > 0

\* the orders in which the loop of update_reservoir_state could visit the nodes
NodeOrders ==
    {o \in [1..NumNodes -> NodeIds] : \A i, j \in 1..NumNodes : o[i] = o[j] => i = j}

PreStepActivations == [n \in NodeIds |-> Engine1.nodes[n].activation]

\* C6: in one engine step every node is updated from the activations its
\* neighbours had before the step, so visiting the nodes in any order
\* gives the same result.
StepReadsPriorActivations ==
    [][(last'.op = "update_reservoir_state" /\ StepsDone' = StepsDone + 1) =>
          /\ \A n \in NodeIds :
                ig'[1].basal_engine.nodes[n]
                   = StepNode(n, Engine1.nodes[n], last'.external_inputs,
                              PreStepActivations)
          /\ \A o \in NodeOrders :
                ig'[1].basal_engine.nodes
                   = StepNodes(Engine1.nodes, o, last'.external_inputs,
                               PreStepActivations)]_vars

\* a step in which a node read a neighbour that the loop had visited before
\* it and whose activation the step changed
StepChangedEarlierNeighbour ==
    /\ last.op = "update_reservoir_state"
    /\ StepsDone >= 2
    /\ \E n \in NodeIds : \E m \in DOMAIN Engine1.nodes[n].incoming_weights :
          /\ m < n
          /\ Engine1.nodes[n].incoming_weights[m] # 0
          /\ FromEnd(Engine1.nodes[m].activation_history, 1)
                # FromEnd(Engine1.nodes[m].activation_history, 2)

\* C7: predict_market_pattern(series, k) returns exactly k values, all 0
\* when the series has fewer than 10 samples.
PredictReturnsStepsAhead ==
    last.op = "predict_market_pattern" =>
       /\ Len(last.returned) = last.steps_ahead
       /\ Len(last.market_data) < PredictMinSamples =>
             \A i \in 1..Len(last.returned) : last.returned[i] = 0

\* a prediction of several steps from a long enough series
PredictedFromLongSeries ==
    /\ last.op = "predict_market_pattern"
    /\ Len(last.market_data) >= PredictMinSamples
    /\ last.steps_ahead >= 2
    /\ \E i \in 1..Len(last.returned) : last.returned[i] # 0

\* C8: every call returns one result and that result is appended to the
\* result log: after n <= 500 calls the market history holds n data points,
\* the result log n results, the latest logged being the latest returned.
EveryResultLogged ==
    (calls[1] >= 1 /\ calls[1] <= ResultLogCap) =>
       /\ Len(returned[1]) = 1
       /\ Len(ig[1].market_history) = calls[1]
       /\ Len(ig[1].coherence_results) = calls[1]
       /\ FromEnd(ig[1].coherence_results, 1) = returned[1][1]

\* new is old with x pushed at the end, the oldest entry dropped once the
\* cap is exceeded
FifoPush(old, new, x, cap) ==
    /\ Len(new) = Min(Len(old) + 1, cap)
    /\ new[Len(new)] = x
    /\ \A i \in 1..(Len(new) - 1) : new[i] = old[i + Len(old) + 1 - Len(new)]

\* C9: the market history never holds more than 1000 data points, the
\* result log never more than 500 results, and each list holds the most
\* recent entries in arrival order: a call drops exactly the oldest entry
\* of a full list.
HistoryAndLogAreBoundedFifo ==
    [][calls'[1] = calls[1] + 1 =>
          /\ Len(ig'[1].market_history) <= MarketHistoryCap
          /\ Len(ig'[1].coherence_results) <= ResultLogCap
          /\ FifoPush(ig[1].market_history, ig'[1].market_history,
                      StreamPoint(feed, calls'[1])[1], MarketHistoryCap)
          /\ \/ /\ IsFallback(returned'[1][1])
                /\ ig'[1].coherence_results = ig[1].coherence_results
             \/ FifoPush(ig[1].coherence_results, ig'[1].coherence_results,
                         returned'[1][1], ResultLogCap)]_vars

\* both lists are full and have dropped entries
BothListsFull ==
    /\ calls[1] > MarketHistoryCap
    /\ Len(ig[1].market_history) = MarketHistoryCap
    /\ Len(ig[1].coherence_results) = ResultLogCap

\* The number of updates every node of the engine has seen: the integrator
\* and predict_market_pattern follow each update_reservoir_state by one
\* compute_enhanced_coherence, which appends one entry to coherence_history
\* and never drops one.
Updates(engine) == Len(engine.coherence_history)

\* new is old after j more values, cut to the cap from the front
FifoGrown(old, new, j, cap) ==
    /\ Len(new) = Min(Len(old) + j, cap)
    /\ \A i \in 1..(Len(new) - j) : new[i] = old[i + Len(old) + j - Len(new)]

\* C10: for every node the activation history and the energy history have
\* the same length, min(number of updates, 100), and hold the most recent
\* values in order.
NodeHistoriesAreBoundedFifo ==
    [][calls'[1] = calls[1] + 1 =>
          \A n \in NodeIds :
             /\ Len(ig'[1].basal_engine.nodes[n].activation_history)
                   = Min(Updates(ig'[1].basal_engine), NodeHistoryCap)
             /\ Len(ig'[1].basal_engine.nodes[n].energy_history)
                   = Min(Updates(ig'[1].basal_engine), NodeHistoryCap)
             /\ Updates(ig'[1].basal_engine) > Updates(Engine1) =>
                   /\ FromEnd(ig'[1].basal_engine.nodes[n].activation_history, 1)
                         = ig'[1].basal_engine.nodes[n].activation
                   /\ FromEnd(ig'[1].basal_engine.nodes[n].energy_history, 1)
                         = ig'[1].basal_engine.nodes[n].energy
             /\ FifoGrown(Engine1.nodes[n].activation_history,
                          ig'[1].basal_engine.nodes[n].activation_history,
                          Updates(ig'[1].basal_engine) - Updates(Engine1),
                          NodeHistoryCap)
             /\ FifoGrown(Engine1.nodes[n].energy_history,
                          ig'[1].basal_engine.nodes[n].energy_history,
                          Updates(ig'[1].basal_engine) - Updates(Engine1),
                          NodeHistoryCap)]_vars

\* a node has seen more updates than its histories hold
NodeHistoriesFull ==
    /\ Updates(Engine1) > NodeHistoryCap
    /\ \A n \in NodeIds :
          Len(Engine1.nodes[n].activation_history) = NodeHistoryCap

\* C11: with integration_strength = 0 the blended psi, q and f of a regular
\* result are exactly the traditional psi, q and f.
ZeroStrengthKeepsPsiQF ==
    (ig[1].integration_strength = 0 /\ returned[1] # <<>>) =>
       /\ returned[1][1].basal_enhanced_gct.psi = returned[1][1].traditional_gct.psi
       /\ returned[1][1].basal_enhanced_gct.q = returned[1][1].traditional_gct.q
       /\ returned[1][1].basal_enhanced_gct.f = returned[1][1].traditional_gct.f

\* a regular result at strength 0 whose traditional vector is not neutral
\* and differs from what the reservoir alone would give
ZeroStrengthRegularResult ==
    /\ ig[1].integration_strength = 0
    /\ returned[1] # <<>>
    /\ ~IsFallback(returned[1][1])
    /\ returned[1][1].traditional_gct # NeutralGCT
    /\ returned[1][1].traditional_gct.psi # LastCoherence(Engine1)
    /\ returned[1][1].traditional_gct.q # returned[1][1].reservoir_state.average_energy

\* C12: with integration_strength = 0 the blended rho stays offset from the
\* traditional rho: it differs from it whenever the anticipation is not 0
\* and the blended rho is not on a clamp.
ZeroStrengthRhoOffset ==
    (/\ ig[1].integration_strength = 0
     /\ returned[1] # <<>>
     /\ ~IsFallback(returned[1][1])
     /\ returned[1][1].anticipation_capacity # 0
     /\ returned[1][1].basal_enhanced_gct.rho \notin {0, Scale}) =>
        returned[1][1].basal_enhanced_gct.rho # returned[1][1].traditional_gct.rho

\* C12 as the code has it: the anticipation term is scaled by
\* integration_strength, so with strength 0 the blended rho is the
\* traditional rho, and with any strength it is the traditional rho plus
\* strength times the anticipation clipped to [-0.5, 0.5], clamped to [0,1].
RhoOffsetScalesWithStrength ==
    (returned[1] # <<>> /\ ~IsFallback(returned[1][1])) =>
       /\ returned[1][1].basal_enhanced_gct.rho
             = Clip(returned[1][1].traditional_gct.rho
                    + RDiv(ig[1].integration_strength
                           * Clip(returned[1][1].anticipation_capacity,
                                  -Neutral, Neutral), Scale),
                    0, Scale)
       /\ ig[1].integration_strength = 0 =>
             returned[1][1].basal_enhanced_gct.rho
                = returned[1][1].traditional_gct.rho

\* a regular result at strength 0 with a non-zero anticipation and a
\* trend strength off the clamps
ZeroStrengthWithAnticipation ==
    /\ ig[1].integration_strength = 0
    /\ returned[1] # <<>>
    /\ ~IsFallback(returned[1][1])
    /\ returned[1][1].anticipation_capacity # 0
    /\ returned[1][1].basal_enhanced_gct.rho \notin {0, Scale}

\* C13: constructing GCTBasalIntegrator with no arguments succeeds and
\* yields an integrator with an engine, an empty market history and an
\* empty result log
DefaultConstructionSucceeds ==
    (last.op = "GCTBasalIntegrator" /\ last.external_inputs = "None") =>
       /\ last.returned = "integrator"
       /\ ig[1] # Unbound
       /\ ig[1].market_history = <<>>
       /\ ig[1].coherence_results = <<>>

\* C14: when the analyzer analyzes several symbols, no integrator's market
\* history (and so no engine) receives data points of two different symbols
OneSymbolPerIntegrator ==
    \A k \in Inst : \A i, j \in DOMAIN ig[k].market_history :
        ig[k].market_history[i].symbol = ig[k].market_history[j].symbol

\* the prices the call divides by (lines 190, 229, 283-284): the price of
\* the previous point and the price two points back
DivisorPricesNonZero(history) ==
    /\ Len(history) >= 2 => FromEnd(history, 2).price # 0
    /\ Len(history) >= 3 => FromEnd(history, 3).price # 0

\* the call that just returned on integrator 1 processed a point with
\* volume 0 and a positive price
ZeroVolumePointProcessed ==
    /\ returned[1] # <<>>
    /\ FromEnd(ig[1].market_history, 1).volume = 0
    /\ FromEnd(ig[1].market_history, 1).price > 0

ShortHistoryGivesNeutralTraditional ==
    \A k \in Inst :
       (returned[k] # <<>> /\ Len(ig[k].market_history) < TraditionalMinSamples) =>
          returned[k][1].traditional_gct = NeutralGCT

\* a regular result from a history of four points of differing prices,
\* the last one with sentiment
RegularResultFromFourPoints ==
    /\ returned[1] # <<>>
    /\ ~IsFallback(returned[1][1])
    /\ Len(ig[1].market_history) = TraditionalMinSamples - 1
    /\ FromEnd(ig[1].market_history, 1).sentiment # <<>>
    /\ FromEnd(ig[1].market_history, 1).price # FromEnd(ig[1].market_history, 2).price

\* C17: on a freshly constructed engine, a step with non-zero external
\* inputs returns an activation vector that differs from the vector returned
\* by the preceding step that had no external inputs, for every topology
InputStepChangesActivations ==
    [][(/\ StepsDone = 1
        /\ last.op = "update_reservoir_state"
        /\ last.external_inputs = <<>>
        /\ last'.op = "update_reservoir_state"
        /\ last'.external_inputs # <<>>)
       => last'.returned # last.returned]_vars

\* the incoming weights of every node of integrator 1's engine
IncomingWeights(engine) == [n \in NodeIds |-> engine.nodes[n].incoming_weights]

\* C18: on a fresh engine driven at every step with the constant external
\* input {0: 0.0}, every node's activation stays 0 at each step, so the
\* activation variance never grows, symbolic acceptance P equals 1
\* throughout and learning changes no weight
QuietEngineStaysAtRest ==
    [][(last'.op = "update_reservoir_state" /\ last'.external_inputs = ZeroInput) =>
          /\ \A k \in DOMAIN last'.returned : last'.returned[k] = 0
          /\ \A n \in NodeIds : ig'[1].basal_engine.nodes[n].activation = 0
          /\ Var(Activations(ig'[1].basal_engine)) = 0
          /\ compute_symbolic_acceptance(ig'[1].basal_engine) = Scale
          /\ IncomingWeights(ig'[1].basal_engine) = IncomingWeights(ig[1].basal_engine)]_vars

\* twenty quiet steps done on an engine that has connections
TwentyQuietSteps ==
    /\ StepsDone = 20
    /\ last.op = "update_reservoir_state"
    /\ last.external_inputs = ZeroInput
    /\ \E n \in NodeIds : DOMAIN ig[1].basal_engine.nodes[n].incoming_weights # {}

\* ln 2, in milli: exp(-x) > 0.5 exactly when x < ln 2
Ln2 == 693

\* the fifth result of a rising sequence has just been returned
FifthRisingResult == calls[1] = 5 /\ returned[1] # <<>> /\ Len(tape) >= 5

\* C19: for a fresh integrator fed 5 data points with strictly increasing
\* prices and constant volume, the traditional vector of the fifth result
\* has rho greater than 0 and psi greater than 0.5
RisingPricesGiveHighPsi ==
    FifthRisingResult =>
       /\ returned[1][1].traditional_gct.rho > 0
       /\ returned[1][1].traditional_gct.psi > Neutral

\* C19 as the code has it: the fifth result is regular, its traditional rho
\* is the neutral 0.5 (the trend needs 10 prices), and its psi =
\* exp(-2 * std/mean) is positive and exceeds 0.5 only when the volatility
\* std/mean of the five prices is below ln(2)/2
RisingPricesPsiFollowsVolatility ==
    FifthRisingResult =>
       /\ ~IsFallback(returned[1][1])
       /\ returned[1][1].traditional_gct.rho = Neutral
       /\ returned[1][1].traditional_gct.psi > 0
       /\ returned[1][1].traditional_gct.psi > Neutral <=>
             2 * Ratio(Std(Prices(ig[1].market_history)),
                       Mean(Prices(ig[1].market_history))) < Ln2

\* the fifth result of a steep rise: psi at or below 0.5
FifthResultOfSteepRise ==
    /\ FifthRisingResult
    /\ ~IsFallback(returned[1][1])
    /\ returned[1][1].traditional_gct.psi <= Neutral

\* C20: the adaptation_efficiency of a regular result is exactly the
\* neutral 0.5 whenever fewer than 20 results are in the result log when it
\* is computed (the log then holds the result too, so at most 20 entries)
FewResultsGiveNeutralEfficiency ==
    \A k \in Inst :
       (/\ returned[k] # <<>>
        /\ ~IsFallback(returned[k][1])
        /\ Len(ig[k].coherence_results) <= 20) =>
          returned[k][1].adaptation_efficiency = Neutral

\* a regular result computed from a log of 10 to 19 results whose psi differ
EfficiencyFromPartialLog ==
    /\ returned[1] # <<>>
    /\ ~IsFallback(returned[1][1])
    /\ Len(ig[1].coherence_results) \in 11..20
    /\ \E i, j \in DOMAIN ig[1].coherence_results :
          ig[1].coherence_results[i].basal_enhanced_gct.psi
             # ig[1].coherence_results[j].basal_enhanced_gct.psi

\* C21: the engine's coherence history is bounded: after any number of
\* compute_enhanced_coherence calls its length never exceeds a fixed cap
\* (here the largest cap the code puts on any of its lists)
CoherenceHistoryBounded ==
    \A k \in Inst : Len(ig[k].basal_engine.coherence_history) <= MarketHistoryCap

\* C22: in compute_enhanced_coherence the symbolic-frequency term F is 0
\* whenever the coherence history holds fewer than 5 values: the new psi is
\* the old one moved by (-gamma P - epsilon M + basal contribution) alone
FrequencyTermZeroOnShortHistory ==
    [][(/\ last'.op = "compute_enhanced_coherence"
        /\ Len(ig[1].basal_engine.coherence_history) < FrequencyMinHistory)
       => ig'[1].basal_engine.psi =
             ClampPsi(ig[1].basal_engine.psi
                      + RDiv(- gamma * compute_symbolic_acceptance(ig[1].basal_engine)
                             - epsilon * compute_mental_activity(ig[1].basal_engine)
                             + BasalContribution(ig[1].basal_engine), 100))]_vars

\* C23: for market data with monotone, very low-volatility prices and
\* constant volume, analyze_market_state reports STABLE on every call,
\* however many times the same calculator has analyzed such data before;
\* data with repeated large price reversals is reported as
\* REBALANCE_REQUIRED or CRITICAL
CalmDataAlwaysStable ==
    /\ (last.op = "analyze_market_state" /\ last.market_data = StableData) =>
          returned[1][1].stability_state = "STABLE"
    /\ (last.op = "analyze_market_state" /\ last.market_data = VolatileData) =>
          returned[1][1].stability_state \in {"REBALANCE_REQUIRED", "CRITICAL"}

\* C23 as the code has it: calm, constant-volume data is reported STABLE
\* exactly while the monitor's pattern_loops counter, which every
\* constant-volume analysis raises by one, is at most 5; the first five
\* analyses of a calculator that saw only such data are STABLE and the
\* sixth in a row is REBALANCE_REQUIRED.  Data with repeated large price
\* reversals is reported as REBALANCE_REQUIRED or CRITICAL on every call.
CalmDataStableUntilLoopsExceed ==
    /\ (last.op = "analyze_market_state" /\ last.market_data = StableData) =>
          /\ returned[1][1].stability_state = "STABLE"
                <=> ig[1].stability_monitor.pattern_loops <= pattern_loop_threshold
          /\ returned[1][1].stability_state \in {"STABLE", "REBALANCE_REQUIRED"}
          /\ calls[1] <= pattern_loop_threshold => returned[1][1].stability_state = "STABLE"
    /\ (last.op = "analyze_market_state" /\ last.market_data = VolatileData) =>
          returned[1][1].stability_state \in {"REBALANCE_REQUIRED", "CRITICAL"}

\* the sixth analysis in a row of the calm, constant-volume data
SixthCalmAnalysis ==
    /\ last.op = "analyze_market_state"
    /\ last.market_data = StableData
    /\ calls[1] = 6
    /\ ig[1].stability_monitor.pattern_loops = 6
    /\ returned[1][1].stability_state = "REBALANCE_REQUIRED"

\* the three phases of the phased step, each over all nodes and all reading
\* the same pre-step activation snapshot
UpdateAll(nodes, external_inputs, snapshot) ==
    [n \in NodeIds |->
        update_energy(nodes[n], external_inputs,
                      neighbor_states_of(n, nodes[n], snapshot))]

LearnAll(nodes, snapshot) ==
    [n \in NodeIds |->
        homeodynamic_learning(nodes[n], neighbor_states_of(n, nodes[n], snapshot))]

AdaptAll(nodes) == [n \in NodeIds |-> adapt_target_energy(nodes[n])]

PhasedStep(nodes, external_inputs, snapshot) ==
    AdaptAll(LearnAll(UpdateAll(nodes, external_inputs, snapshot), snapshot))

\* C24: the engine step as coded (for each node in turn: update, learn,
\* adapt) leaves every node's activation, energy, target energy, weights and
\* histories in the same state as the phased step update-all, learn-all,
\* adapt-all over the same pre-step activation snapshot
StepEqualsPhasedStep ==
    [][(last'.op = "update_reservoir_state" /\ StepsDone' = StepsDone + 1) =>
          ig'[1].basal_engine.nodes
             = PhasedStep(Engine1.nodes, last'.external_inputs,
                          PreStepActivations)]_vars

\* a step in which a node had a non-zero weighted input from a neighbour
\* and an energy off its target, so that its learning rewrote weights, and
\* in which a node with 10 energy samples adapted its target
StepLearnedFromNeighbours ==
    /\ last.op = "update_reservoir_state"
    /\ last.external_inputs # <<>>
    /\ StepsDone >= 10
    /\ \E n \in NodeIds :
          Var(LastN(Engine1.nodes[n].energy_history, 10)) > VarUnstable
    /\ \E n \in NodeIds : \E m \in DOMAIN Engine1.nodes[n].incoming_weights :
          /\ m # n
          /\ Engine1.nodes[n].incoming_weights[m] # 0
          /\ FromEnd(Engine1.nodes[m].activation_history, 2) # 0
          /\ Engine1.nodes[n].energy # Engine1.nodes[n].target_energy

\* C25: an external input addressed to node id k is delivered to node k: a
\* non-zero signal keyed k contributes to node k's own weighted input, so
\* node k's activation differs from the one it would have without the input
KeyedInputDrivesItsNode ==
    [][(last'.op = "update_reservoir_state" /\ last'.external_inputs # <<>>) =>
          \A k \in DOMAIN last'.external_inputs :
             /\ WeightedSum(Engine1.nodes[k], last'.external_inputs) # 0
             /\ ig'[1].basal_engine.nodes[k].activation
                   # StepNode(k, Engine1.nodes[k], <<>>, PreStepActivations).activation]_vars

\* h2 is h after k more appends, capped at the node history cap
GrownBy(h, h2, k) ==
    /\ Len(h2) >= k
    /\ h2 = LastN(h \o LastN(h2, k), NodeHistoryCap)
    /\ Len(h) + k <= NodeHistoryCap => Len(h2) = Len(h) + k

\* engine e2 is engine e advanced by exactly k steps, with k entries
\* appended to the coherence and anticipation histories
AdvancedBy(e, e2, k) ==
    /\ \A n \in NodeIds :
          /\ GrownBy(e.nodes[n].activation_history, e2.nodes[n].activation_history, k)
          /\ GrownBy(e.nodes[n].energy_history, e2.nodes[n].energy_history, k)
    /\ Len(e2.coherence_history) = Len(e.coherence_history) + k
    /\ SubSeq(e2.coherence_history, 1, Len(e.coherence_history)) = e.coherence_history
    /\ Len(e2.anticipation_history) = Len(e.anticipation_history) + k
    /\ SubSeq(e2.anticipation_history, 1, Len(e.anticipation_history))
          = e.anticipation_history

\* C26: every successful process_market_data_stream call with
\* enable_prediction = True advances the engine by exactly 4 steps and
\* appends 4 entries to the coherence and anticipation histories, from the
\* very first data point on; with enable_prediction = False it advances
\* exactly 1 step and appends 1 entry
PredictionAdvancesEngine ==
    [][(calls'[1] = calls[1] + 1 /\ ~IsFallback(returned'[1][1])) =>
          AdvancedBy(ig[1].basal_engine, ig'[1].basal_engine,
                     IF (IF feed = 0 THEN tape'[Len(tape')][2]
                         ELSE StreamPoint(feed, calls'[1])[2])
                     THEN 4 ELSE 1)]_vars

\* the first data point of an integrator, processed with predictions: four
\* steps taken
FirstPointAdvancedFourSteps ==
    /\ calls[1] = 1
    /\ feed = 0
    /\ tape[1][2]
    /\ ~IsFallback(returned[1][1])
    /\ Len(ig[1].basal_engine.coherence_history) = 4
    /\ StepsDone = 4

\* the data point handed to the call of integrator 1 that is returning
PointOfCall ==
    IF feed = 0 THEN tape'[Len(tape')][1] ELSE StreamPoint(feed, calls'[1])[1]

\* the exception is raised before the engine is stepped (lines 104-110)
RaisedBeforeStep(history, market_data) ==
    TraditionalRaises(history, market_data) \/ EncodeRaises(history)

\* C27: a process_market_data_stream call that fails and returns the
\* fallback is not rolled back: the failing data point stays in the market
\* history and any engine step already taken stays applied (one step when
\* the resonance raised, none when the exception came earlier)
FailedCallNotRolledBack ==
    [][(calls'[1] = calls[1] + 1 /\ IsFallback(returned'[1][1])) =>
          /\ ig'[1].market_history
                = PushCapped(ig[1].market_history, PointOfCall, MarketHistoryCap)
          /\ ig'[1].coherence_results = ig[1].coherence_results
          /\ IF RaisedBeforeStep(ig'[1].market_history, PointOfCall)
             THEN ig'[1].basal_engine = ig[1].basal_engine
             ELSE /\ AdvancedBy(ig[1].basal_engine, ig'[1].basal_engine, 1)
                  /\ ig'[1].basal_engine # ig[1].basal_engine]_vars

\* a regular result computed after a call that failed once the engine had
\* been stepped: the history holds the failed point and the engine one more
\* coherence value than the regular results account for
RegularResultAfterFailedStep ==
    /\ returned[1] # <<>>
    /\ feed = 0
    /\ ~IsFallback(returned[1][1])
    /\ \E i \in DOMAIN ig[1].market_history : ig[1].market_history[i].price = 0
    /\ Len(ig[1].coherence_results) < Len(ig[1].market_history)
    /\ \E i \in 1..(Len(tape) - 1) :
          /\ ResonanceRaises(SubSeq(ig[1].market_history, 1, i))
          /\ ~RaisedBeforeStep(SubSeq(ig[1].market_history, 1, i),
                               ig[1].market_history[i])

\* C28: two process_market_data_stream calls scheduled concurrently on one
\* event loop never interleave: whenever the loop runs a task, the task goes
\* from scheduled to returned in that one step, which leaves the integrator
\* and the result exactly as an uninterrupted call does
ConcurrentCallsNeverInterleave ==
    [][\A t \in DOMAIN tape :
          (Len(tape') = Len(tape) /\ tape'[t] # tape[t]
             /\ tape'[t].pc # "scheduled") =>
             /\ tape[t].pc = "scheduled"
             /\ tape'[t].pc = "done"
             /\ ig'[1] = process_market_data_stream(
                            ig[1], tape[t].market_data,
                            tape[t].enable_prediction, now).integ
             /\ tape'[t].result = << process_market_data_stream(
                                       ig[1], tape[t].market_data,
                                       tape[t].enable_prediction, now).result >>]_vars

\* both gathered calls have returned a regular result, the one scheduled
\* second having run first
GatheredCallsBothReturned ==
    /\ Len(tape) = 2
    /\ \A t \in DOMAIN tape : DOMAIN tape[t] = DOMAIN NewTask(<<>>, TRUE)
    /\ AllDone
    /\ \A t \in DOMAIN tape : ~IsFallback(tape[t].result[1])
    /\ tape[2].result[1].timestamp < tape[1].result[1].timestamp
    /\ Len(ig[1].coherence_results) = 2

\* the target adapt_target_energy leaves in a node whose target was target
\* and whose energy history is now energy_history
AdaptedTarget(target, energy_history) ==
    IF Len(energy_history) < 10 THEN target
    ELSE IF Var(LastN(energy_history, 10)) < VarStable
    THEN IF target - adaptation_rate < TargetFloor THEN TargetFloor
         ELSE target - adaptation_rate
    ELSE IF Var(LastN(energy_history, 10)) > VarUnstable
    THEN IF target + adaptation_rate > TargetCeil THEN TargetCeil
         ELSE target + adaptation_rate
    ELSE target

\* C29: a step changes a node's target energy only when the node has at
\* least 10 energy samples and the variance of the last 10 is below 0.01
\* (target lowered by the adaptation rate, never below 0.2) or above 0.1
\* (target raised by the adaptation rate, never above 0.8); otherwise the
\* target is unchanged, so no target changes during the first 9 steps and
\* every target stays within [0,1]
TargetAdaptsOnlyOnVariance ==
    [][\A n \in NodeIds :
          /\ Engine1'.nodes[n].target_energy
                = AdaptedTarget(Engine1.nodes[n].target_energy,
                                Engine1'.nodes[n].energy_history)
          /\ now' <= 9 => Engine1'.nodes[n].target_energy
                             = Engine1.nodes[n].target_energy
          /\ Engine1'.nodes[n].target_energy >= TargetFloor
          /\ Engine1'.nodes[n].target_energy <= TargetCeil
          /\ Engine1'.nodes[n].target_energy \in 0..Scale]_vars

\* a node whose target has been raised to the ceiling, its energy still
\* swinging
TargetHeldAtCeiling ==
    \E n \in NodeIds :
       /\ Engine1.nodes[n].target_energy = TargetCeil
       /\ Var(LastN(Engine1.nodes[n].energy_history, 10)) > VarUnstable

\* the normalization factor of homeodynamic_learning for a node, line 119
TotalWeightedInput(node, neighbor_states) ==
    SumF([k \in DOMAIN neighbor_states |->
             neighbor_states[k] * Get0(node.incoming_weights, k)],
         DOMAIN neighbor_states)

\* the node learnt nothing: no neighbour state, or a total weighted input
\* within 1e-6 of zero
LearningSkipped(node, neighbor_states) ==
    \/ DOMAIN neighbor_states = {}
    \/ Abs(TotalWeightedInput(node, neighbor_states)) < LearnEps

\* C30: when a node has no neighbour states, or the total weighted input
\* over its neighbours is within 1e-6 of zero, learning leaves every weight
\* of the node unchanged; and in every case learning only rewrites weights
\* of existing incoming connections: it adds and removes no connection and
\* touches neither the outgoing weights nor the adjacency matrix
LearningKeepsConnections ==
    [][(last'.op = "update_reservoir_state" /\ StepsDone' = StepsDone + 1) =>
          /\ Engine1'.adjacency_matrix = Engine1.adjacency_matrix
          /\ \A n \in NodeIds :
                /\ LearningSkipped(
                       Engine1.nodes[n],
                       neighbor_states_of(n, Engine1.nodes[n], PreStepActivations))
                     => Engine1'.nodes[n].incoming_weights
                           = Engine1.nodes[n].incoming_weights
                /\ DOMAIN Engine1'.nodes[n].incoming_weights
                      = DOMAIN Engine1.nodes[n].incoming_weights
                /\ Engine1'.nodes[n].outgoing_weights
                      = Engine1.nodes[n].outgoing_weights]_vars

\* an engine, several steps into its run, with a node that has no
\* neighbour and a node whose learning has rewritten an incoming weight,
\* its connections and its outgoing weights being those of construction
LearntOnExistingConnections ==
    /\ StepsDone >= 2
    /\ \E seed \in Seeds :
          /\ Engine1.adjacency_matrix = NewEngine(seed).adjacency_matrix
          /\ \E n \in NodeIds, m \in NodeIds :
                /\ DOMAIN Engine1.nodes[m].incoming_weights = {}
                /\ Engine1.nodes[n].incoming_weights
                      # NewEngine(seed).nodes[n].incoming_weights
                /\ DOMAIN Engine1.nodes[n].incoming_weights
                      = DOMAIN NewEngine(seed).nodes[n].incoming_weights
                /\ Engine1.nodes[n].outgoing_weights
                      = NewEngine(seed).nodes[n].outgoing_weights

==========================================================================
